---- MODULE Spec2Model ----
(***************************************************************************)
(* A model of noed (src/src/main.c), a modal terminal text editor.         *)
(*                                                                         *)
(* Bytes are their ASCII codes.  Offsets into the buffer are 0-based as in *)
(* the C code; TLA+ sequences are 1-based, so byte i of the buffer is      *)
(* data[i + 1] and line i of the line index is lines[i + 1].               *)
(***************************************************************************)
EXTENDS Integers, Sequences, FiniteSets, TLC

VARIABLES
    pc,                 \* where the process is: "start", "interactive", "read", "exited"
    argv,               \* the arguments main() has not shifted yet (program name excluded)
    file,               \* what is stored under the path: [kind, bytes]
    data,               \* Editor.data.items[0 .. count-1]
    data_capacity,      \* Editor.data.capacity
    lines,              \* Editor.lines.items[0 .. count-1]
    cursor,             \* Editor.cursor
    view_row,           \* Editor.view_row
    view_col,           \* Editor.view_col
    insert,             \* editor_start_interactive's local `insert`
    d,                  \* the Display: chars, rows, cols, cursor_row, cursor_col
    ws,                 \* the terminal's real size (what TIOCGWINSZ reports)
    term_raw,           \* the terminal has ECHO and ICANON switched off
    screen_cleared,     \* the clear-screen sequence of the defer block was printed
    terminal_prepared,  \* editor_start_interactive's local `terminal_prepared`
    sa_restart,         \* whether the installed SIGWINCH action restarts system calls
    status,             \* the exit status, once exited
    last_saved,         \* history: [ok, bytes] of the last editor_save_to_file call (SpecPersist)
    pending             \* the terminal's input queue: bytes typed that no read() has returned yet

vars == <<pc, argv, file, data, data_capacity, lines, cursor, view_row, view_col,
          insert, d, ws, term_raw, screen_cleared, terminal_prepared, sa_restart,
          status, last_saved, pending>>

(***************************************************************************)
(* Bounds of the model.                                                    *)
(***************************************************************************)
\* longest buffer of a whole-program session
MaxLen == 2
\* longest buffer the editor-core specification starts from or grows to
MaxEditLen == 4
\* how far past the buffer an out-of-bounds scan is followed
MaxOver == 2

(***************************************************************************)
(* Bytes.                                                                  *)
(***************************************************************************)
NL == 10
SP == 32

Min(a, b) == IF a < b THEN a ELSE b

\* <ctype.h> in the C locale
isalnum(x) == (48 <= x /\ x <= 57) \/ (65 <= x /\ x <= 90) \/ (97 <= x /\ x <= 122)

isdigit(x) == 48 <= x /\ x <= 57

\* the test without its lower bound
is_display_no_lower_bound(x) == x <= 126

\* the test without its upper bound
is_display_eight_bit(x) == SP <= x

is_display(x) == SP <= x /\ x <= 126

(***************************************************************************)
(* The line index.                                                         *)
(***************************************************************************)
Line(begin, end) == [begin |-> begin, end |-> end]

RECURSIVE recompute_scan(_, _, _, _)
recompute_scan(items, i, begin, acc) ==
    IF i >= Len(items)
    THEN Append(acc, Line(begin, Len(items)))
    ELSE IF items[i + 1] = NL
         THEN recompute_scan(items, i + 1, i + 1, Append(acc, Line(begin, i)))
         ELSE recompute_scan(items, i + 1, begin, acc)

\* the scan with `begin = i` in place of `begin = i + 1`
RECURSIVE recompute_scan_keeps_newline(_, _, _, _)
recompute_scan_keeps_newline(items, i, begin, acc) ==
    IF i >= Len(items)
    THEN Append(acc, Line(begin, Len(items)))
    ELSE IF items[i + 1] = NL
         THEN recompute_scan_keeps_newline(items, i + 1, i, Append(acc, Line(begin, i)))
         ELSE recompute_scan_keeps_newline(items, i + 1, begin, acc)

recompute_lines_keeps_newline(items) == recompute_scan_keeps_newline(items, 0, 0, <<>>)

\* the rebuild that makes one line of the whole buffer
recompute_lines_one_line(items) == <<Line(0, Len(items))>>

editor_recompute_lines(items) == recompute_scan(items, 0, 0, <<>>)

(***************************************************************************)
(* The text buffer.  An editor value is a record [data, lines, cursor,     *)
(* fault]: fault is "none" while the process runs, "assert" once an ASSERT *)
(* has called exit(1), "segv" once a read outside the allocation has       *)
(* killed the process.                                                     *)
(***************************************************************************)
Ed(items, ls, c) == [data |-> items, lines |-> ls, cursor |-> c, fault |-> "none"]

InsertAt(items, at, x) ==
    SubSeq(items, 1, at) \o <<x>> \o SubSeq(items, at + 1, Len(items))

RemoveAt(items, at) ==
    SubSeq(items, 1, at) \o SubSeq(items, at + 2, Len(items))

\* the insert without `e->cursor += 1`
insert_char_keeps_cursor(e, x) ==
    LET c  == IF e.cursor > Len(e.data) THEN Len(e.data) ELSE e.cursor
        dd == InsertAt(e.data, c, x)
    IN  Ed(dd, editor_recompute_lines(dd), c)

\* the insert without the call of editor_recompute_lines
insert_char_keeps_lines(e, x) ==
    LET c  == IF e.cursor > Len(e.data) THEN Len(e.data) ELSE e.cursor
    IN  Ed(InsertAt(e.data, c, x), e.lines, c + 1)

editor_insert_char(e, x) ==
    LET c  == IF e.cursor > Len(e.data) THEN Len(e.data) ELSE e.cursor
        dd == InsertAt(e.data, c, x)
    IN  Ed(dd, editor_recompute_lines(dd), c + 1)

\* DELETE removing the byte before the cursor
delete_removes_before_cursor(e) ==
    IF e.cursor < Len(e.data)
    THEN LET dd == RemoveAt(e.data, IF e.cursor > 0 THEN e.cursor - 1 ELSE 0)
         IN  Ed(dd, editor_recompute_lines(dd), e.cursor)
    ELSE e

editor_delete_char(e) ==
    IF e.cursor < Len(e.data)
    THEN LET dd == RemoveAt(e.data, e.cursor)
         IN  Ed(dd, editor_recompute_lines(dd), e.cursor)
    ELSE e

\* DELETE's removal (the byte at the cursor, cursor kept) in BACKSPACE's place
backdelete_removes_at_cursor(e) ==
    IF 0 < e.cursor /\ e.cursor <= Len(e.data)
    THEN LET dd == RemoveAt(e.data, Min(e.cursor, Len(e.data) - 1))
         IN  Ed(dd, editor_recompute_lines(dd), e.cursor)
    ELSE e

\* BACKSPACE without `e->cursor -= 1`
backdelete_keeps_cursor(e) ==
    IF 0 < e.cursor /\ e.cursor <= Len(e.data)
    THEN LET dd == RemoveAt(e.data, e.cursor - 1)
         IN  Ed(dd, editor_recompute_lines(dd), e.cursor)
    ELSE e

editor_backdelete_char(e) ==
    IF 0 < e.cursor /\ e.cursor <= Len(e.data)
    THEN LET dd == RemoveAt(e.data, e.cursor - 1)
         IN  Ed(dd, editor_recompute_lines(dd), e.cursor - 1)
    ELSE e

(***************************************************************************)
(* The navigator.                                                          *)
(***************************************************************************)
\* the two ASSERTs at the head of editor_current_line
current_line_asserts(e) == e.cursor <= Len(e.data) /\ Len(e.lines) >= 1

RECURSIVE current_line_scan(_, _, _)
current_line_scan(ls, c, i) ==
    IF i >= Len(ls)
    THEN 0
    ELSE IF ls[i + 1].begin <= c /\ c <= ls[i + 1].end
         THEN i
         ELSE current_line_scan(ls, c, i + 1)

\* the scan with `cursor < end` in place of `cursor <= end`
RECURSIVE current_line_scan_excludes_end(_, _, _)
current_line_scan_excludes_end(ls, c, i) ==
    IF i >= Len(ls)
    THEN 0
    ELSE IF ls[i + 1].begin <= c /\ c < ls[i + 1].end
         THEN i
         ELSE current_line_scan_excludes_end(ls, c, i + 1)

current_line_excludes_end(e) == current_line_scan_excludes_end(e.lines, e.cursor, 0)

editor_current_line(e) == current_line_scan(e.lines, e.cursor, 0)

\* the ASSERT of da_append that lets the process go on
Failed_goes_on(e) == e

\* the process has called exit(1) inside ASSERT
Failed(e) == [e EXCEPT !.fault = "assert"]

line_size(ls, row) == ls[row + 1].end - ls[row + 1].begin

editor_move_char_right(e) ==
    IF e.cursor < Len(e.data) THEN [e EXCEPT !.cursor = e.cursor + 1] ELSE e

editor_move_char_left(e) ==
    IF e.cursor > 0 THEN [e EXCEPT !.cursor = e.cursor - 1] ELSE e

\* bound to 'w': despite its name it moves to the previous line
editor_move_line_down(e) ==
    IF ~current_line_asserts(e) THEN Failed(e)
    ELSE LET line   == editor_current_line(e)
             column == e.cursor - e.lines[line + 1].begin
         IN  IF line > 0
             THEN [e EXCEPT !.cursor = Min(e.lines[line].begin + column, e.lines[line].end)]
             ELSE e

\* the move to the next line that forgets the column
move_line_up_drops_column(e) ==
    IF ~current_line_asserts(e) THEN Failed(e)
    ELSE LET line == editor_current_line(e)
         IN  IF line < Len(e.lines) - 1
             THEN [e EXCEPT !.cursor = e.lines[line + 2].begin]
             ELSE e

\* bound to 's': despite its name it moves to the next line
editor_move_line_up(e) ==
    IF ~current_line_asserts(e) THEN Failed(e)
    ELSE LET line   == editor_current_line(e)
             column == e.cursor - e.lines[line + 1].begin
         IN  IF line < Len(e.lines) - 1
             THEN [e EXCEPT !.cursor =
                      Min(e.lines[line + 2].begin + column, e.lines[line + 2].end)]
             ELSE e

RECURSIVE word_left_scan(_, _, _)
word_left_scan(items, c, alnum) ==
    IF 0 < c /\ c < Len(items) /\ (isalnum(items[c + 1]) <=> alnum)
    THEN word_left_scan(items, c - 1, alnum)
    ELSE c

editor_move_word_left(e) ==
    [e EXCEPT !.cursor = word_left_scan(e.data, word_left_scan(e.data, e.cursor, FALSE), TRUE)]

\* the bound `cursor < count`
below_count(c, count) == c < count

\* `cursor < count - 1` in size_t: count - 1 wraps to SIZE_MAX when count is 0
below_count_minus_1(c, count) == IF count = 0 THEN TRUE ELSE c < count - 1

\* items[i] as the scan of editor_move_word_right reads it.  Inside the buffer it
\* is the byte; past it the read is outside the initialised part of the
\* allocation and gives what `oob` holds there (-1: the read faults).
peek(items, oob, i) ==
    IF i < Len(items) THEN items[i + 1]
    ELSE IF i - Len(items) < Len(oob) THEN oob[i - Len(items) + 1]
    ELSE -1

\* one of the two while loops; the result is the cursor, or -1 after a fault
RECURSIVE word_right_scan(_, _, _, _)
word_right_scan(items, oob, c, alnum) ==
    IF c >= 0 /\ below_count_minus_1(c, Len(items))
    THEN LET x == peek(items, oob, c)
         IN  IF x = -1 THEN -1
             ELSE IF isalnum(x) <=> alnum
                  THEN word_right_scan(items, oob, c + 1, alnum)
                  ELSE c
    ELSE c

\* the indices of items that one of the two loops reads
RECURSIVE word_right_reads(_, _, _, _)
word_right_reads(items, oob, c, alnum) ==
    IF c >= 0 /\ below_count_minus_1(c, Len(items))
    THEN LET x == peek(items, oob, c)
         IN  {c} \cup (IF x # -1 /\ (isalnum(x) <=> alnum)
                       THEN word_right_reads(items, oob, c + 1, alnum)
                       ELSE {})
    ELSE {}

\* the indices that editor_move_word_right reads from the cursor c
move_word_right_reads(items, oob, c) ==
    LET c1 == word_right_scan(items, oob, c, FALSE)
    IN  word_right_reads(items, oob, c, FALSE)
            \cup (IF c1 = -1 THEN {} ELSE word_right_reads(items, oob, c1, TRUE))

editor_move_word_right(e, oob) ==
    LET c1 == word_right_scan(e.data, oob, e.cursor, FALSE)
        c2 == IF c1 = -1 THEN -1 ELSE word_right_scan(e.data, oob, c1, TRUE)
    IN  IF c2 = -1 THEN [e EXCEPT !.fault = "segv"] ELSE [e EXCEPT !.cursor = c2]

RECURSIVE paragraph_up_scan(_, _, _)
paragraph_up_scan(ls, row, blank) ==
    IF row > 0 /\ ((line_size(ls, row) = 0) <=> blank)
    THEN paragraph_up_scan(ls, row - 1, blank)
    ELSE row

editor_move_paragraph_up(e) ==
    IF ~current_line_asserts(e) THEN Failed(e)
    ELSE LET r0 == editor_current_line(e)
             r1 == paragraph_up_scan(e.lines, r0, TRUE)
             r2 == paragraph_up_scan(e.lines, r1, FALSE)
         IN  [e EXCEPT !.cursor = e.lines[r2 + 1].begin]

RECURSIVE paragraph_down_scan(_, _, _)
paragraph_down_scan(ls, row, blank) ==
    IF row < Len(ls) - 1 /\ ((line_size(ls, row) = 0) <=> blank)
    THEN paragraph_down_scan(ls, row + 1, blank)
    ELSE row

editor_move_paragraph_down(e) ==
    IF ~current_line_asserts(e) THEN Failed(e)
    ELSE LET r0 == editor_current_line(e)
             r1 == paragraph_down_scan(e.lines, r0, TRUE)
             r2 == paragraph_down_scan(e.lines, r1, FALSE)
         IN  [e EXCEPT !.cursor = e.lines[r2 + 1].begin]

\* the move to the start that empties the buffer
move_to_buffer_start_truncates(e) == Ed(<<>>, editor_recompute_lines(<<>>), 0)

editor_move_to_buffer_start(e) == [e EXCEPT !.cursor = 0]

\* the move to the last byte where the code moves past it
move_to_buffer_end_on_last_byte(e) ==
    [e EXCEPT !.cursor = IF Len(e.data) > 0 THEN Len(e.data) - 1 ELSE 0]

editor_move_to_buffer_end(e) == [e EXCEPT !.cursor = Len(e.data)]

editor_move_to_line_start(e) ==
    IF ~current_line_asserts(e) THEN Failed(e)
    ELSE [e EXCEPT !.cursor = e.lines[editor_current_line(e) + 1].begin]

editor_move_to_line_end(e) ==
    IF ~current_line_asserts(e) THEN Failed(e)
    ELSE [e EXCEPT !.cursor = e.lines[editor_current_line(e) + 1].end]

(***************************************************************************)
(* The file under the path.  A system call that transfers bytes (read,     *)
(* write) follows a schedule: the sequence of what the successive calls    *)
(* return, -1 for an error, k > 0 for "at most k bytes"; once the schedule *)
(* is used up every call transfers all it is asked to.                     *)
(***************************************************************************)
Regular(bytes) == [kind |-> "regular", bytes |-> bytes]

Absent == [kind |-> "absent", bytes |-> <<>>]

\* a directory, a device, ...
NotRegular == [kind |-> "other", bytes |-> <<>>]

\* what one read() or write() of `want` bytes returns under schedule s
transfer(s, want) == IF s = <<>> THEN want ELSE IF Head(s) < 0 THEN -1 ELSE Min(Head(s), want)

rest(s) == IF s = <<>> THEN s ELSE Tail(s)

\* the loop `while ((size_t) n < e->data.count)` of editor_save_to_file;
\* `stored` is what the file holds so far
RECURSIVE save_loop(_, _, _, _)
save_loop(items, n, stored, s) ==
    IF n < Len(items)
    THEN LET m == transfer(s, Len(items) - n)
         IN  IF m < 0
             THEN [ok |-> FALSE, file |-> Regular(stored)]
             ELSE save_loop(items, n + m, stored \o SubSeq(items, n + 1, n + m), rest(s))
    ELSE [ok |-> TRUE, file |-> Regular(stored)]

\* the loop writing `items` again from its start where the code writes `items + n`
RECURSIVE save_loop_from_start(_, _, _, _)
save_loop_from_start(items, n, stored, s) ==
    IF n < Len(items)
    THEN LET m == transfer(s, Len(items) - n)
         IN  IF m < 0
             THEN [ok |-> FALSE, file |-> Regular(stored)]
             ELSE save_loop_from_start(items, n + m, stored \o SubSeq(items, 1, m), rest(s))
    ELSE [ok |-> TRUE, file |-> Regular(stored)]

save_to_file_from_start(items, f, io) ==
    IF ~io.open_ok \/ f.kind = "other"
    THEN [ok |-> FALSE, file |-> f]
    ELSE LET n == transfer(io.sched, Len(items))
         IN  IF n < 0
             THEN [ok |-> FALSE, file |-> Regular(<<>>)]
             ELSE save_loop_from_start(items, n, SubSeq(items, 1, n), rest(io.sched))

\* io = [open_ok, sched]; the result is [ok, file]
editor_save_to_file(items, f, io) ==
    IF ~io.open_ok \/ f.kind = "other"
    THEN [ok |-> FALSE, file |-> f]
    ELSE LET n == transfer(io.sched, Len(items))      \* O_TRUNC emptied the file
         IN  IF n < 0
             THEN [ok |-> FALSE, file |-> Regular(<<>>)]
             ELSE save_loop(items, n, SubSeq(items, 1, n), rest(io.sched))

\* the loop `while ((size_t) n < file_size)` of editor_open_file
RECURSIVE open_loop(_, _, _, _)
open_loop(bytes, n, items, s) ==
    IF n < Len(bytes)
    THEN LET m == transfer(s, Len(bytes) - n)
         IN  IF m < 0
             THEN [ok |-> FALSE, data |-> <<>>]
             ELSE open_loop(bytes, n + m, items \o SubSeq(bytes, n + 1, n + m), rest(s))
    ELSE [ok |-> TRUE, data |-> SubSeq(items, 1, n)]

\* the load taking what the first read() returned where the code reads on
\* until file_size bytes have arrived
open_file_first_read_only(f, io) ==
    LET failed == [ok |-> FALSE, data |-> <<>>, lines |-> <<>>, capacity |-> 0]
    IN  IF f.kind = "absent"
        THEN [ok |-> TRUE, data |-> <<>>, lines |-> editor_recompute_lines(<<>>),
              capacity |-> 0]
        ELSE IF ~io.stat_ok \/ f.kind # "regular" \/ ~io.open_ok
        THEN failed
        ELSE LET file_size == Len(f.bytes)
                 n == transfer(io.sched, file_size)
             IN  IF n >= 0
                 THEN [ok |-> TRUE, data |-> SubSeq(f.bytes, 1, n),
                       lines |-> editor_recompute_lines(SubSeq(f.bytes, 1, n)),
                       capacity |-> file_size]
                 ELSE [failed EXCEPT !.capacity = file_size]

\* the load failing on a path that does not exist, where the code returns
\* true on ENOENT
open_file_missing_is_error(f, io) ==
    LET failed == [ok |-> FALSE, data |-> <<>>, lines |-> <<>>, capacity |-> 0]
    IN  IF f.kind = "absent" \/ ~io.stat_ok \/ f.kind # "regular" \/ ~io.open_ok
        THEN failed
        ELSE LET file_size == Len(f.bytes)
                 n == transfer(io.sched, file_size)
                 r == IF n < 0 THEN [ok |-> FALSE, data |-> <<>>]
                      ELSE open_loop(f.bytes, n, SubSeq(f.bytes, 1, n), rest(io.sched))
             IN  IF r.ok
                 THEN [ok |-> TRUE, data |-> r.data,
                       lines |-> editor_recompute_lines(r.data), capacity |-> file_size]
                 ELSE [failed EXCEPT !.capacity = file_size]

\* io = [stat_ok, open_ok, sched]; the result is [ok, data, lines, capacity].
\* On success the line index is rebuilt (the defer block).
editor_open_file(f, io) ==
    LET failed == [ok |-> FALSE, data |-> <<>>, lines |-> <<>>, capacity |-> 0]
    IN  IF f.kind = "absent"
        THEN [ok |-> TRUE, data |-> <<>>, lines |-> editor_recompute_lines(<<>>),
              capacity |-> 0]
        ELSE IF ~io.stat_ok \/ f.kind # "regular" \/ ~io.open_ok
        THEN failed
        ELSE LET file_size == Len(f.bytes)
                 n == transfer(io.sched, file_size)
                 r == IF n < 0 THEN [ok |-> FALSE, data |-> <<>>]
                      ELSE open_loop(f.bytes, n, SubSeq(f.bytes, 1, n), rest(io.sched))
             IN  IF r.ok
                 THEN [ok |-> TRUE, data |-> r.data,
                       lines |-> editor_recompute_lines(r.data), capacity |-> file_size]
                 ELSE [failed EXCEPT !.capacity = file_size]

(***************************************************************************)
(* The command line.  An argument is a sequence of bytes.  A uint64_t is   *)
(* four 16-bit limbs, least significant first, so that its arithmetic      *)
(* wraps at 2^64 as in C.                                                  *)
(***************************************************************************)
LimbBase == 2 ^ 16

u64_zero == <<0, 0, 0, 0>>

\* v * 10 + a  (mod 2^64)
u64_mul10_add(v, a) ==
    LET t1 == v[1] * 10 + a
        t2 == v[2] * 10 + (t1 \div LimbBase)
        t3 == v[3] * 10 + (t2 \div LimbBase)
        t4 == v[4] * 10 + (t3 \div LimbBase)
    IN  <<t1 % LimbBase, t2 % LimbBase, t3 % LimbBase, t4 % LimbBase>>

\* v >= n, for a small n
u64_ge(v, n) == v[2] # 0 \/ v[3] # 0 \/ v[4] # 0 \/ v[1] >= n

RECURSIVE decimal_scan(_, _, _)
decimal_scan(str, i, result) ==
    IF i > Len(str) THEN [ok |-> TRUE, value |-> result]
    ELSE IF ~isdigit(str[i]) THEN [ok |-> FALSE, value |-> result]
    ELSE decimal_scan(str, i + 1, u64_mul10_add(result, str[i] - 48))

decimal_string_as_uint64_with_overflow(str) == decimal_scan(str, 1, u64_zero)

\* "-gt"
GT == <<45, 103, 116>>

\* the while loop of main(): [ok, file_path, goto_line, rest]; file_path is <<>>
\* for NULL and <<path>> once set, rest is what was not shifted off argv
RECURSIVE parse_args(_, _, _)
parse_args(args, file_path, goto_line) ==
    LET bad(left, g) ==
            [ok |-> FALSE, file_path |-> file_path, goto_line |-> g, rest |-> left]
    IN  IF args = <<>>
        THEN [ok |-> file_path # <<>>, file_path |-> file_path, goto_line |-> goto_line,
              rest |-> <<>>]
        ELSE LET flag == Head(args)
             IN  IF flag = GT
                 THEN IF Len(args) < 2 THEN bad(Tail(args), goto_line)
                      ELSE LET v == decimal_string_as_uint64_with_overflow(args[2])
                           IN  IF ~v.ok THEN bad(Tail(Tail(args)), v.value)
                               ELSE parse_args(Tail(Tail(args)), file_path, v.value)
                 ELSE IF file_path # <<>> THEN bad(Tail(args), goto_line)
                      ELSE parse_args(Tail(args), <<flag>>, goto_line)

\* the clamp taking an out-of-range line to the first line
goto_cursor_clamps_to_first(goto_line, ls) ==
    LET g == IF u64_ge(goto_line, Len(ls)) THEN 0 ELSE goto_line[1]
    IN  ls[g + 1].begin

\* lines 670-673 of main(): the cursor the session starts with
goto_cursor(goto_line, ls) ==
    LET g == IF u64_ge(goto_line, Len(ls)) THEN Len(ls) - 1 ELSE goto_line[1]
    IN  ls[g + 1].begin

(***************************************************************************)
(* The renderer.  Only what outlives a frame is kept: the viewport and the *)
(* on-screen cursor position.                                              *)
(***************************************************************************)
\* strlen("-- INSERT --")
LabelLen == 12

\* `chars` is the grid, row after row: rows*cols bytes once a frame is rendered
Display(rows, cols, cursor_row, cursor_col) ==
    [chars |-> <<>>, rows |-> rows, cols |-> cols,
     cursor_row |-> cursor_row, cursor_col |-> cursor_col]

\* "-- INSERT --"
insert_label == <<45, 45, SP, 73, 78, 83, 69, 82, 84, SP, 45, 45>>

\* the filler '~' of the rows after the last line
Tilde == 126

\* n spaces
spaces(n) == [k \in 1 .. n |-> SP]

\* the grid after the first loop of editor_rerender
cleared(dd) == spaces(dd.rows * dd.cols)

\* Row i of the grid after the loop over the text rows and the label: what
\* memcpy wrote at its start, then the spaces of the first loop.  vr and vc
\* are the view after the clamp.
grid_row(e, vr, vc, ins, dd, i) ==
    LET rows == dd.rows - 1
        cols == dd.cols
        row  == vr + i
        copied ==
            IF i < rows
            THEN IF row < Len(e.lines)
                 THEN LET begin == e.lines[row + 1].begin
                          size  == e.lines[row + 1].end - begin
                          view_col_ == IF vc > size THEN size ELSE vc
                          n == IF size - view_col_ > cols THEN cols ELSE size - view_col_
                      IN  SubSeq(e.data, begin + view_col_ + 1, begin + view_col_ + n)
                 ELSE <<Tilde>>
            ELSE IF ins THEN insert_label ELSE <<>>
    IN  copied \o spaces(cols - Len(copied))

RECURSIVE grid_rows(_, _, _, _, _, _)
grid_rows(e, vr, vc, ins, dd, i) ==
    IF i >= dd.rows THEN <<>>
    ELSE grid_row(e, vr, vc, ins, dd, i) \o grid_rows(e, vr, vc, ins, dd, i + 1)

\* the copy of row i with the length of the line's rest not capped at cols
row_copy_uncapped(e, vr, vc, ins, dd, i) ==
    LET rows == dd.rows - 1
        cols == dd.cols
        row  == vr + i
    IN  IF i < rows
        THEN IF row < Len(e.lines)
             THEN LET begin == e.lines[row + 1].begin
                      size  == e.lines[row + 1].end - begin
                      view_col_ == IF vc > size THEN size ELSE vc
                  IN  [dst |-> i * cols, from |-> "data", src |-> begin + view_col_,
                       n |-> size - view_col_]
             ELSE [dst |-> i * cols, from |-> "filler", src |-> 0, n |-> 1]
        ELSE [dst |-> rows * cols, from |-> "label", src |-> 0,
              n |-> IF ins THEN Len(insert_label) ELSE 0]

\* The memcpy of row i of the grid, i < dd.rows: the offset in d->chars it
\* writes at (dst), what it reads (from) at which offset (src), and the number
\* of bytes (n).  The rows before the last copy a line of the buffer or the
\* filler; the last row gets the label in Insertion mode.
row_copy(e, vr, vc, ins, dd, i) ==
    LET rows == dd.rows - 1
        cols == dd.cols
        row  == vr + i
    IN  IF i < rows
        THEN IF row < Len(e.lines)
             THEN LET begin == e.lines[row + 1].begin
                      size  == e.lines[row + 1].end - begin
                      view_col_ == IF vc > size THEN size ELSE vc
                      remaining == size - view_col_
                  IN  [dst |-> i * cols, from |-> "data", src |-> begin + view_col_,
                       n |-> IF remaining > cols THEN cols ELSE remaining]
             ELSE [dst |-> i * cols, from |-> "filler", src |-> 0, n |-> 1]
        ELSE [dst |-> rows * cols, from |-> "label", src |-> 0,
              n |-> IF ins THEN Len(insert_label) ELSE 0]

\* the rows copied from the first column of each line
rendered_from_first_column(e, vr, vc, ins, dd) == grid_rows(e, vr, 0, ins, dd, 0)

\* the grid of a frame that is not skipped
rendered(e, vr, vc, ins, dd) == grid_rows(e, vr, vc, ins, dd, 0)

\* the pair of tests that moves the view up to the cursor only
clamp_snaps_up_only(view, pos, extent) == IF pos < view THEN pos ELSE view

\* The two tests that keep the cursor in the window, the same for rows and
\* columns: `view` is view_row or view_col, `pos` the cursor's row or column,
\* `extent` the number of text rows or of columns.
clamp(view, pos, extent) ==
    LET v1 == IF pos < view THEN pos ELSE view
    IN  IF pos >= v1 + extent THEN pos - extent + 1 ELSE v1

\* editor_rerender after the test of the size: the result is
\* [view_row, view_col, d, fault]
render_pass(e, vr, vc, ins, dd) ==
    IF ~current_line_asserts(e)
    THEN [view_row |-> vr, view_col |-> vc, d |-> [dd EXCEPT !.chars = cleared(dd)],
          fault |-> "assert"]
    ELSE LET rows       == dd.rows - 1
             cols       == dd.cols
             cursor_row == editor_current_line(e)
             cursor_col == e.cursor - e.lines[cursor_row + 1].begin
             vr2 == clamp(vr, cursor_row, rows)
             vc2 == clamp(vc, cursor_col, cols)
         IN  [view_row |-> vr2, view_col |-> vc2,
              d |-> [chars |-> rendered(e, vr2, vc2, ins, dd),
                     rows |-> dd.rows, cols |-> dd.cols,
                     cursor_row |-> cursor_row - vr2,
                     cursor_col |-> IF cursor_col > cols THEN cols ELSE cursor_col],
              fault |-> "none"]

\* the renderer without the test of the size
rerender_never_skips(e, vr, vc, ins, dd) == render_pass(e, vr, vc, ins, dd)

editor_rerender(e, vr, vc, ins, dd) ==
    IF dd.rows < 2 \/ dd.cols < LabelLen
    THEN [view_row |-> vr, view_col |-> vc, d |-> [dd EXCEPT !.chars = cleared(dd)],
          fault |-> "none"]
    ELSE render_pass(e, vr, vc, ins, dd)

\* display_resize, when the ioctl and the realloc succeed.  The bytes of the
\* resized grid are indeterminate and are not read: the next frame begins by
\* overwriting all of them.
display_resize(dd, size) == [dd EXCEPT !.rows = size[1], !.cols = size[2]]

(***************************************************************************)
(* Key events.  A chunk is what one read() of the terminal returned; the   *)
(* dispatcher compares the zero-filled array `seq` as a C string, that is, *)
(* up to its first NUL byte.                                               *)
(***************************************************************************)
MAX_ESC_SEQ_LEN == 32

ES_ESCAPE == <<27>>

ES_BACKSPACE == <<127>>

ES_DELETE == <<27, 91, 51, 126>>

\* ESC followed by a space (Alt+SPACE)
ES_ALT_SPACE == ES_ESCAPE \o <<SP>>

RECURSIVE cstr_scan(_, _)
cstr_scan(seq, i) ==
    IF i > Len(seq) \/ seq[i] = 0 THEN SubSeq(seq, 1, i - 1) ELSE cstr_scan(seq, i + 1)

\* the C string held by `seq`
cstr(seq) == cstr_scan(seq, 1)

\* The if-chains of the event loop.  The result is what the event asks for:
\* op names the editor operation, x its byte, and the flags follow the locals.
Event(op, x, ins, quit, save) == [op |-> op, x |-> x, insert |-> ins, quit |-> quit, save |-> save]

\* the Insertion chain with BACKSPACE leaving the mode as Escape does
dispatch_insert_backspace_leaves(seq) ==
    LET s == cstr(seq)
    IN  IF s = ES_ALT_SPACE \/ s = ES_ESCAPE THEN Event("none", 0, FALSE, FALSE, TRUE)
        ELSE IF s = ES_BACKSPACE THEN Event("backdelete", 0, FALSE, FALSE, FALSE)
        ELSE IF s = ES_DELETE THEN Event("delete", 0, TRUE, FALSE, FALSE)
        ELSE IF s = <<NL>> THEN Event("insert", NL, TRUE, FALSE, FALSE)
        ELSE IF Len(seq) = 1 /\ is_display(seq[1]) THEN Event("insert", seq[1], TRUE, FALSE, FALSE)
        ELSE Event("none", 0, TRUE, FALSE, FALSE)

dispatch_insert(seq) ==
    LET s == cstr(seq)
    IN  IF s = ES_ALT_SPACE \/ s = ES_ESCAPE THEN Event("none", 0, FALSE, FALSE, TRUE)
        ELSE IF s = ES_BACKSPACE THEN Event("backdelete", 0, TRUE, FALSE, FALSE)
        ELSE IF s = ES_DELETE THEN Event("delete", 0, TRUE, FALSE, FALSE)
        ELSE IF s = <<NL>> THEN Event("insert", NL, TRUE, FALSE, FALSE)
        ELSE IF Len(seq) = 1 /\ is_display(seq[1]) THEN Event("insert", seq[1], TRUE, FALSE, FALSE)
        ELSE Event("none", 0, TRUE, FALSE, FALSE)

\* the keys of Navigation mode that move the cursor, with their operations
MoveKeys ==
    [k \in {115, 119, 97, 100, 107, 59, 111, 108, 79, 76, 75, 58} |->
        CASE k = 115 -> "line_up"          \* s
          [] k = 119 -> "line_down"        \* w
          [] k = 97  -> "char_left"        \* a
          [] k = 100 -> "char_right"       \* d
          [] k = 107 -> "word_left"        \* k
          [] k = 59  -> "word_right"       \* ;
          [] k = 111 -> "paragraph_up"     \* o
          [] k = 108 -> "paragraph_down"   \* l
          [] k = 79  -> "to_buffer_start"  \* O
          [] k = 76  -> "to_buffer_end"    \* L
          [] k = 75  -> "to_line_start"    \* K
          [] k = 58  -> "to_line_end"]     \* :

dispatch_navigation(seq) ==
    LET s == cstr(seq)
    IN  IF s = <<113>> THEN Event("none", 0, FALSE, TRUE, FALSE)          \* q
        ELSE IF s = ES_ALT_SPACE \/ s = <<SP>> THEN Event("none", 0, TRUE, FALSE, FALSE)
        ELSE IF Len(s) = 1 /\ s[1] \in DOMAIN MoveKeys
             THEN Event(MoveKeys[s[1]], 0, FALSE, FALSE, FALSE)
        ELSE IF s = ES_DELETE THEN Event("delete", 0, FALSE, FALSE, FALSE)
        ELSE IF s = ES_BACKSPACE THEN Event("backdelete", 0, FALSE, FALSE, FALSE)
        ELSE IF s = <<NL>> THEN Event("insert", NL, FALSE, FALSE, FALSE)
        ELSE Event("none", 0, FALSE, FALSE, FALSE)

\* the chains with a read() of 0 bytes taken as the end of the input
dispatch_eof_quits(ins, seq) ==
    IF seq = <<>> THEN Event("none", 0, ins, TRUE, FALSE)
    ELSE IF ins THEN dispatch_insert(seq) ELSE dispatch_navigation(seq)

dispatch(ins, seq) == IF ins THEN dispatch_insert(seq) ELSE dispatch_navigation(seq)

\* the editor operation an event names; oob is what lies past the buffer
apply(e, ev, oob) ==
    CASE ev.op = "none"            -> e
      [] ev.op = "insert"          -> editor_insert_char(e, ev.x)
      [] ev.op = "delete"          -> editor_delete_char(e)
      [] ev.op = "backdelete"      -> editor_backdelete_char(e)
      [] ev.op = "line_up"         -> editor_move_line_up(e)
      [] ev.op = "line_down"       -> editor_move_line_down(e)
      [] ev.op = "char_left"       -> editor_move_char_left(e)
      [] ev.op = "char_right"      -> editor_move_char_right(e)
      [] ev.op = "word_left"       -> editor_move_word_left(e)
      [] ev.op = "word_right"      -> editor_move_word_right(e, oob)
      [] ev.op = "paragraph_up"    -> editor_move_paragraph_up(e)
      [] ev.op = "paragraph_down"  -> editor_move_paragraph_down(e)
      [] ev.op = "to_buffer_start" -> editor_move_to_buffer_start(e)
      [] ev.op = "to_buffer_end"   -> editor_move_to_buffer_end(e)
      [] ev.op = "to_line_start"   -> editor_move_to_line_start(e)
      [] ev.op = "to_line_end"     -> editor_move_to_line_end(e)

\* da_append's growth
grown(capacity) == IF capacity = 0 THEN 10 * 1024 ELSE capacity * 2

(***************************************************************************)
(* What the environment may do, and the inputs of the model.               *)
(***************************************************************************)
\* the bytes that are typed as text or stored in the files the model starts from
Alphabet == {NL, 113}

RECURSIVE SeqsUpTo(_, _)
SeqsUpTo(S, n) ==
    IF n = 0 THEN {<<>>}
    ELSE LET shorter == SeqsUpTo(S, n - 1)
         IN  shorter \cup {Append(q, x) : q \in shorter, x \in S}

\* schedules of read() and write() results
IOScheds == {<<>>, <<-1>>, <<1>>, <<1, -1>>, <<1, 1>>}

OpenIOs(f) ==
    IF f.kind = "regular"
    THEN {[stat_ok |-> TRUE, open_ok |-> TRUE, sched |-> s] : s \in IOScheds}
         \cup {[stat_ok |-> a, open_ok |-> ~a, sched |-> <<>>] : a \in BOOLEAN}
    ELSE {[stat_ok |-> a, open_ok |-> TRUE, sched |-> <<>>] :
             a \in IF f.kind = "absent" THEN {TRUE} ELSE BOOLEAN}

SaveIOs ==
    {[open_ok |-> TRUE, sched |-> s] : s \in IOScheds} \cup {[open_ok |-> FALSE, sched |-> <<>>]}

\* what a scan may find past the end of the buffer
OobSeqs == SeqsUpTo({SP, 113}, MaxOver)

\* terminal sizes, <<rows, columns>>
Sizes == {<<1, LabelLen>>, <<2, LabelLen>>}

\* a read() that fills the whole array
Oversized == [i \in 1 .. MAX_ESC_SEQ_LEN |-> 113]

\* what one read() of the terminal may return
Chunks ==
    {<<>>, Oversized, ES_ESCAPE, ES_BACKSPACE, ES_DELETE, ES_ALT_SPACE, <<NL>>, <<SP>>,
     <<113>>, <<0>>, <<1>>, <<120>>}
    \cup {<<k>> : k \in DOMAIN MoveKeys}
    \cup {<<SP, 0>>, <<113, 0, 113>>, <<113, 113>>, <<97, 100>>, ES_ESCAPE \o <<0, SP>>,
          ES_DELETE \o <<0>>, <<NL, 0, NL>>}

\* the digits of a decimal numeral as an argument
Dec(digits) == [i \in 1 .. Len(digits) |-> digits[i] + 48]

\* -gt values: small ones, 2^64 - 1, 2^64, 2^64 + 1, and malformed ones
GotoValues ==
    {Dec(<<0>>), Dec(<<1>>), Dec(<<2>>), Dec(<<3>>), Dec(<<1, 0>>), Dec(<<0, 0, 2>>),
     Dec(<<1, 8, 4, 4, 6, 7, 4, 4, 0, 7, 3, 7, 0, 9, 5, 5, 1, 6, 1, 5>>),
     Dec(<<1, 8, 4, 4, 6, 7, 4, 4, 0, 7, 3, 7, 0, 9, 5, 5, 1, 6, 1, 6>>),
     Dec(<<1, 8, 4, 4, 6, 7, 4, 4, 0, 7, 3, 7, 0, 9, 5, 5, 1, 6, 1, 7>>),
     <<>>, <<45, 49>>, <<49, 97>>, <<43, 49>>, <<SP, 49>>}

\* two paths
PathA == <<102>>

PathB == <<103>>

Argvs ==
    {<<>>, <<PathA>>, <<GT>>, <<PathA, GT>>, <<PathA, PathB>>, <<PathA, PathA>>}
    \cup {<<GT, v, PathA>> : v \in GotoValues}
    \cup {<<PathA, GT, v>> : v \in GotoValues}
    \cup {<<GT, v>> : v \in GotoValues}
    \cup {<<GT, Dec(<<1>>), PathA, PathB>>, <<GT, Dec(<<2>>), GT, Dec(<<1>>), PathA>>,
          <<GT, GT, PathA>>}

InitFiles == {Absent, NotRegular} \cup {Regular(b) : b \in SeqsUpTo(Alphabet, MaxLen)}

(***************************************************************************)
(* The program.                                                            *)
(***************************************************************************)
NeverSaved == [ok |-> FALSE, bytes |-> <<>>]

Init ==
    /\ pc = "start"
    /\ argv \in Argvs
    /\ file \in InitFiles
    /\ data = <<>>
    /\ data_capacity = 0
    /\ lines = <<>>
    /\ cursor = 0
    /\ view_row = 0
    /\ view_col = 0
    /\ insert = FALSE
    /\ d = Display(0, 0, 0, 0)
    /\ ws \in Sizes
    /\ term_raw = FALSE
    /\ screen_cleared = FALSE
    /\ terminal_prepared = FALSE
    /\ sa_restart = FALSE
    /\ status = -1
    /\ last_saved = NeverSaved
    /\ pending = <<>>

\* the editor value held by the variables
CurEd == Ed(data, lines, cursor)

\* the defer block restoring the terminal and clearing the screen without
\* the test of terminal_prepared
Exit_restores_unprepared(st, deferred) ==
    /\ pc' = "exited"
    /\ status' = st
    /\ IF deferred
       THEN term_raw' = FALSE /\ screen_cleared' = TRUE
       ELSE UNCHANGED <<term_raw, screen_cleared>>

\* The process ends with exit status st.  `deferred` tells whether it ends by
\* running the defer block of editor_start_interactive (a return_defer or the end
\* of the loop) or by exit() inside ASSERT or a fatal signal, which skip it.
Exit(st, deferred) ==
    /\ pc' = "exited"
    /\ status' = st
    /\ IF deferred /\ terminal_prepared
       THEN term_raw' = FALSE /\ screen_cleared' = TRUE
       ELSE UNCHANGED <<term_raw, screen_cleared>>

\* main() up to the call of editor_start_interactive.
\* env = [io, reserve_ok, lines_ok]: how the system calls and the two
\* allocations (da_reserve of the buffer, da_append of the first line) go.
Main(env) ==
    /\ pc = "start"
    /\ LET p == parse_args(argv, <<>>, u64_zero)
           r == editor_open_file(file, env.io)
           reserve_failed == r.capacity > 0 /\ ~env.reserve_ok
           lines_failed == r.ok /\ ~env.lines_ok
       IN  /\ argv' = p.rest
           /\ IF p.ok /\ r.ok /\ ~reserve_failed /\ ~lines_failed
              THEN /\ data' = r.data
                   /\ data_capacity' = r.capacity
                   /\ lines' = r.lines
                   /\ cursor' = goto_cursor(p.goto_line, r.lines)
                   /\ pc' = "interactive"
                   /\ UNCHANGED <<status, term_raw, screen_cleared>>
              ELSE /\ UNCHANGED <<data, data_capacity, lines, cursor>>
                   /\ Exit(1, TRUE)
    /\ UNCHANGED <<file, view_row, view_col, insert, d, ws, terminal_prepared, sa_restart,
                   last_saved, pending>>

\* the iteration with the view reset before the frame is rendered
Loop_renders_from_origin(e2, cap2, ins2, f2, dd, quit) ==
    LET r == editor_rerender(e2, 0, 0, ins2, dd)
    IN  /\ data' = e2.data
        /\ lines' = e2.lines
        /\ cursor' = e2.cursor
        /\ data_capacity' = cap2
        /\ insert' = ins2
        /\ file' = f2
        /\ IF e2.fault # "none"
           THEN /\ Exit(IF e2.fault = "assert" THEN 1 ELSE 139, FALSE)
                /\ d' = dd
                /\ UNCHANGED <<view_row, view_col>>
           ELSE IF quit
           THEN /\ Exit(0, TRUE)
                /\ d' = dd
                /\ UNCHANGED <<view_row, view_col>>
           ELSE IF r.fault # "none"
           THEN /\ Exit(1, FALSE)
                /\ d' = dd
                /\ UNCHANGED <<view_row, view_col>>
           ELSE /\ view_row' = r.view_row
                /\ view_col' = r.view_col
                /\ d' = r.d
                /\ UNCHANGED <<pc, status, term_raw, screen_cleared>>

\* The editor state after an event, then the rest of the loop iteration: the
\* loop ends (quit), or the frame is rendered and flushed and the process is
\* back in read().  dd is the Display the frame is rendered into.
Loop(e2, cap2, ins2, f2, dd, quit) ==
    LET r == editor_rerender(e2, view_row, view_col, ins2, dd)
    IN  /\ data' = e2.data
        /\ lines' = e2.lines
        /\ cursor' = e2.cursor
        /\ data_capacity' = cap2
        /\ insert' = ins2
        /\ file' = f2
        /\ IF e2.fault # "none"
           THEN /\ Exit(IF e2.fault = "assert" THEN 1 ELSE 139, FALSE)
                /\ d' = dd
                /\ UNCHANGED <<view_row, view_col>>
           ELSE IF quit
           THEN /\ Exit(0, TRUE)
                /\ d' = dd
                /\ UNCHANGED <<view_row, view_col>>
           ELSE IF r.fault # "none"
           THEN /\ Exit(1, FALSE)
                /\ d' = dd
                /\ UNCHANGED <<view_row, view_col>>
           ELSE /\ view_row' = r.view_row
                /\ view_col' = r.view_col
                /\ d' = r.d
                /\ UNCHANGED <<pc, status, term_raw, screen_cleared>>

\* editor_start_interactive up to the first read(): the terminal and signal
\* setup, display_resize and the first frame.  `failing` names the first call
\* that fails ("none": all succeed); `restart` is the SA_RESTART bit of the
\* flags of `act`, which the code leaves uninitialised.
StartInteractive(failing, restart) ==
    /\ pc = "interactive"
    /\ IF failing \in {"isatty", "tcgetattr", "tcsetattr"}
       THEN /\ Exit(1, TRUE)
            /\ UNCHANGED <<terminal_prepared, sa_restart, d, view_row, view_col,
                           data, lines, cursor, data_capacity, insert, file>>
       ELSE IF failing = "sigaction"
       THEN /\ terminal_prepared' = TRUE
            /\ pc' = "exited"
            /\ status' = 1
            /\ term_raw' = FALSE
            /\ screen_cleared' = TRUE
            /\ UNCHANGED <<sa_restart, d, view_row, view_col,
                           data, lines, cursor, data_capacity, insert, file>>
       ELSE IF failing \in {"ioctl", "realloc"}
       THEN /\ terminal_prepared' = TRUE
            /\ sa_restart' = restart
            /\ pc' = "exited"
            /\ status' = 1
            /\ term_raw' = TRUE
            /\ UNCHANGED <<screen_cleared, d, view_row, view_col,
                           data, lines, cursor, data_capacity, insert, file>>
       ELSE /\ terminal_prepared' = TRUE
            /\ sa_restart' = restart
            /\ term_raw' = TRUE
            /\ LET r == editor_rerender(CurEd, view_row, view_col, insert, display_resize(d, ws))
               IN  /\ view_row' = r.view_row
                   /\ view_col' = r.view_col
                   /\ d' = r.d
                   /\ IF r.fault # "none"
                      THEN pc' = "exited" /\ status' = 1
                      ELSE pc' = "read" /\ UNCHANGED status
            /\ UNCHANGED <<screen_cleared, data, lines, cursor, data_capacity, insert, file>>
    /\ UNCHANGED <<argv, ws, last_saved, pending>>

\* the iteration ending the session when the save fails, where the code
\* ignores the result of editor_save_to_file
KeyIn_quits_on_failed_save(seq, env, typed, maxlen) ==
    /\ pc = "read"
    /\ IF Len(seq) >= MAX_ESC_SEQ_LEN
       THEN Loop(CurEd, data_capacity, insert, file, d, FALSE)
       ELSE LET ev    == dispatch(insert, seq)
                grows == ev.op = "insert" /\ Len(data) >= data_capacity
                e2    == IF grows /\ ~env.alloc_ok THEN Failed(CurEd)
                         ELSE apply(CurEd, ev, env.oob)
                cap2  == IF grows THEN grown(data_capacity) ELSE data_capacity
                saved == editor_save_to_file(data, file, env.io)
            IN  /\ ev.op = "insert" => (ev.x \in typed /\ Len(data) < maxlen)
                /\ Loop(e2, cap2, ev.insert, IF ev.save THEN saved.file ELSE file, d,
                        ev.quit \/ (ev.save /\ ~saved.ok))
    /\ UNCHANGED <<argv, ws, terminal_prepared, sa_restart>>

\* read() returns the chunk seq: the dispatch, the operation, the save, and
\* the rest of the iteration.  env = [alloc_ok, io, oob].
\* Text is typed from the bytes `typed`, and only while the buffer is
\* shorter than `maxlen`: the bounds of the model.
KeyIn(seq, env, typed, maxlen) ==
    /\ pc = "read"
    /\ IF Len(seq) >= MAX_ESC_SEQ_LEN
       THEN Loop(CurEd, data_capacity, insert, file, d, FALSE)
       ELSE LET ev    == dispatch(insert, seq)
                grows == ev.op = "insert" /\ Len(data) >= data_capacity
                e2    == IF grows /\ ~env.alloc_ok THEN Failed(CurEd)
                         ELSE apply(CurEd, ev, env.oob)
                cap2  == IF grows THEN grown(data_capacity) ELSE data_capacity
                saved == editor_save_to_file(data, file, env.io)
            IN  /\ ev.op = "insert" => (ev.x \in typed /\ Len(data) < maxlen)
                /\ Loop(e2, cap2, ev.insert, IF ev.save THEN saved.file ELSE file, d, ev.quit)
    /\ UNCHANGED <<argv, ws, terminal_prepared, sa_restart>>

\* the history of saves after read() returned seq
Recorded(seq, env) ==
    LET ev    == dispatch(insert, seq)
        saved == editor_save_to_file(data, file, env.io)
    IN  IF Len(seq) >= MAX_ESC_SEQ_LEN \/ ~ev.save THEN last_saved
        ELSE IF saved.ok THEN [ok |-> TRUE, bytes |-> data]
        ELSE NeverSaved

\* the history is kept by the persistence scenario only
Key(seq, env) ==
    /\ KeyIn(seq, env, Alphabet, MaxLen)
    /\ UNCHANGED <<last_saved, pending>>

\* the environments that differ for the chunk seq in the current state
KeyEnvs(seq) ==
    LET ev == dispatch(insert, seq)
        short == Len(seq) < MAX_ESC_SEQ_LEN
    IN  {[alloc_ok |-> a, io |-> io, oob |-> o] :
            a \in IF short /\ ev.op = "insert" /\ Len(data) >= data_capacity
                  THEN BOOLEAN ELSE {TRUE},
            io \in IF short /\ ev.save THEN SaveIOs ELSE {[open_ok |-> TRUE, sched |-> <<>>]},
            o \in IF short /\ ev.op = "word_right" /\ Len(data) = 0 /\ data_capacity > 0
                  THEN OobSeqs ELSE {<<>>}}

\* read() fails with an error other than EINTR
ReadError ==
    /\ pc = "read"
    /\ Exit(1, TRUE)
    /\ UNCHANGED <<argv, file, data, data_capacity, lines, cursor, view_row, view_col,
                   insert, d, ws, terminal_prepared, sa_restart, last_saved,
                   pending>>

\* The terminal is resized to `size` and SIGWINCH is delivered while the
\* process is between display_flush and the return of read().  If the signal
\* finds the process blocked in read() and the action does not restart system
\* calls, read() fails with EINTR (interrupts): display_resize, whose ioctl or
\* realloc may fail (sized_ok), and the next frame.  Otherwise the handler
\* runs, does nothing, and read() goes on waiting.
Resize(size, interrupts, sized_ok) ==
    /\ pc = "read"
    /\ size # ws
    /\ ws' = size
    /\ interrupts => ~sa_restart
    /\ IF interrupts
       THEN IF sized_ok
            THEN Loop(CurEd, data_capacity, insert, file, display_resize(d, size), FALSE)
            ELSE /\ Exit(1, FALSE)
                 /\ UNCHANGED <<data, data_capacity, lines, cursor, view_row, view_col,
                                insert, d, file>>
       ELSE /\ sized_ok
            /\ UNCHANGED <<pc, status, term_raw, screen_cleared, data, data_capacity, lines,
                           cursor, view_row, view_col, insert, d, file>>
    /\ UNCHANGED <<argv, terminal_prepared, sa_restart, last_saved, pending>>

MainEnvs ==
    {[io |-> io, reserve_ok |-> a, lines_ok |-> b] :
        io \in OpenIOs(file), a \in BOOLEAN, b \in BOOLEAN}

SetupFailures == {"none", "isatty", "tcgetattr", "tcsetattr", "sigaction", "ioctl", "realloc"}

Next ==
    \/ \E env \in MainEnvs : Main(env)
    \/ \E failing \in SetupFailures, restart \in BOOLEAN : StartInteractive(failing, restart)
    \/ \E seq \in Chunks : \E env \in KeyEnvs(seq) : Key(seq, env)
    \/ ReadError
    \/ \E size \in Sizes, interrupts \in BOOLEAN, sized_ok \in BOOLEAN :
          Resize(size, interrupts, sized_ok)

Spec == Init /\ [][Next]_vars

(***************************************************************************)
(* The editor core on its own: a session that holds any buffer, with the   *)
(* cursor anywhere in it, in either mode, and then receives editing and    *)
(* movement keys only.  The terminal keeps one size in which every frame   *)
(* is rendered.  These keys neither read nor write the file: the path is   *)
(* one that does not exist (the buffer has not been saved yet).            *)
(***************************************************************************)
EditAlphabet == {NL, SP, 113}

EditSize == <<2, LabelLen>>

EditChunks ==
    {ES_BACKSPACE, ES_DELETE, <<NL>>, <<SP>>, <<113>>} \cup {<<k>> : k \in DOMAIN MoveKeys}

\* a session waiting in read() with any buffer
InitSession ==
    /\ pc = "read"
    /\ argv = <<>>
    /\ data \in SeqsUpTo(EditAlphabet, MaxEditLen)
    /\ data_capacity = Len(data)
    /\ lines = editor_recompute_lines(data)
    /\ cursor \in 0 .. Len(data)
    /\ insert \in BOOLEAN
    /\ ws = EditSize
    /\ LET r == editor_rerender(CurEd, 0, 0, insert, display_resize(Display(0, 0, 0, 0), EditSize))
       IN  view_row = r.view_row /\ view_col = r.view_col /\ d = r.d
    /\ term_raw = TRUE
    /\ screen_cleared = FALSE
    /\ terminal_prepared = TRUE
    /\ sa_restart = FALSE
    /\ status = -1
    /\ last_saved = NeverSaved
    /\ pending = <<>>

InitEditor ==
    /\ InitSession
    /\ file = Absent

\* a key that edits or moves: in Navigation mode 'q' quits and SPACE toggles;
\* the allocator has memory
EditKey(seq, env) ==
    /\ \/ insert
       \/ seq \notin {<<SP>>, <<113>>}
    /\ env.alloc_ok
    /\ KeyIn(seq, env, EditAlphabet, MaxEditLen)
    /\ UNCHANGED <<last_saved, pending>>

NextEditor == \E seq \in EditChunks : \E env \in KeyEnvs(seq) : EditKey(seq, env)

SpecEditor == InitEditor /\ [][NextEditor]_vars

(***************************************************************************)
(* C1.  After any sequence of inserts and deletes starting from any loaded *)
(* buffer, the line index has at least one line, line 0 begins at 0,       *)
(* consecutive lines satisfy line[i].end + 1 = line[i+1].begin, and the    *)
(* last line ends at the buffer length.                                    *)
(***************************************************************************)
LineIndexWellFormed(ls, items) ==
    /\ Len(ls) >= 1
    /\ ls[1].begin = 0
    /\ \A i \in 1 .. Len(ls) - 1 : ls[i].end + 1 = ls[i + 1].begin
    /\ ls[Len(ls)].end = Len(items)

C1_LineIndexInvariant == LineIndexWellFormed(lines, data)

\* a buffer of several lines that an insert has grown and a delete has shortened
C1_Witness ==
    /\ pc = "read"
    /\ Len(lines) >= 3
    /\ data_capacity > 2 * Len(data)
    /\ data_capacity < grown(0)

(***************************************************************************)
(* C2.  Every Navigator operation, from any buffer and any cursor in       *)
(* [0, length], leaves the cursor in [0, length]: a movement key received  *)
(* in Navigation mode is followed by the next read() with the cursor       *)
(* inside the buffer.                                                      *)
(***************************************************************************)
MoveChunks == {<<k>> : k \in DOMAIN MoveKeys}

MoveStep == ~insert /\ \E seq \in MoveChunks : \E env \in KeyEnvs(seq) : EditKey(seq, env)

C2_CursorStaysInRange ==
    [][(cursor <= Len(data) /\ MoveStep) => (pc' = "read" /\ cursor' \in 0 .. Len(data'))]_vars

(***************************************************************************)
(* C7.  For every buffer, every cursor in [0, length] and every byte b,    *)
(* insert(b) followed by delete_backward restores the buffer bytes, the    *)
(* length, the cursor and the line index.                                  *)
(***************************************************************************)
RoundTripBytes == {0, NL, SP, 113, 127, 255}

C7_InsertBackdeleteRoundTrip ==
    (pc = "read" /\ cursor <= Len(data)) =>
        \A b \in RoundTripBytes :
            editor_backdelete_char(editor_insert_char(CurEd, b)) = CurEd

\* a buffer that an insert has grown and a delete has brought back to its
\* length, the cursor inside a line of it
C7_Witness ==
    /\ pc = "read"
    /\ Len(data) >= 2
    /\ data_capacity = 2 * Len(data)
    /\ 0 < cursor /\ cursor < Len(data)
    /\ Len(lines) >= 2

(***************************************************************************)
(* C3.  The mode is Navigation or Insertion and starts as Navigation.  It  *)
(* changes only when a key event is dispatched: from Navigation on the     *)
(* toggle key (SPACE or ESC+SPACE), from Insertion on Escape or ESC+SPACE. *)
(* No other key event, no resize, no read error changes it.  The key of an *)
(* event is the C string the dispatcher compares: the bytes read up to the *)
(* first NUL.                                                              *)
(***************************************************************************)
KeyStep(seq) == \E env \in KeyEnvs(seq) : Key(seq, env)

\* the keys that change the mode ins
ToggleKeys(ins) ==
    IF ins THEN {ES_ESCAPE, ES_ESCAPE \o <<SP>>} ELSE {<<SP>>, ES_ESCAPE \o <<SP>>}

ModeChangeAllowed ==
    /\ pc = "read"
    /\ \E seq \in Chunks :
          /\ Len(seq) < MAX_ESC_SEQ_LEN
          /\ cstr(seq) \in ToggleKeys(insert)
          /\ KeyStep(seq)

\* what the dispatcher does with the mode on a chunk that is no toggle key
OtherKeysKeepMode ==
    \A ins \in BOOLEAN : \A seq \in Chunks :
        (Len(seq) < MAX_ESC_SEQ_LEN /\ cstr(seq) \notin ToggleKeys(ins))
            => dispatch(ins, seq).insert = ins

C3_ModeTransitions ==
    /\ [](insert \in BOOLEAN /\ (pc \in {"start", "interactive"} => ~insert))
    /\ [](pc = "start" => OtherKeysKeepMode)
    /\ [][insert' # insert => ModeChangeAllowed]_vars

\* Insertion mode entered, the session waiting for the next key
C3_Witness == pc = "read" /\ insert

(***************************************************************************)
(* C4.  The buffer is saved on every Insertion to Navigation transition    *)
(* and at no other time: the stored file changes only at such a            *)
(* transition, every such transition runs editor_save_to_file on the       *)
(* buffer, and after a successful save the file holds the buffer's bytes.  *)
(***************************************************************************)
SaveEnv(io) == [alloc_ok |-> TRUE, io |-> io, oob |-> <<>>]

LeavesInsertion == pc = "read" /\ insert /\ ~insert'

\* the chunks whose key is Escape or ESC+SPACE
LeaveChunks == {seq \in Chunks : cstr(seq) \in {ES_ESCAPE, ES_ESCAPE \o <<SP>>}}

\* the step is the save of the buffer under io, made by a key that leaves
SavedWith(io) ==
    /\ file' = editor_save_to_file(data, file, io).file
    /\ \E seq \in LeaveChunks : Key(seq, SaveEnv(io))

C4_SaveOnlyOnLeavingInsertion ==
    [][/\ file' # file => LeavesInsertion
       /\ LeavesInsertion =>
             /\ \E io \in SaveIOs : SavedWith(io)
             /\ \A io \in SaveIOs :
                   LET r == editor_save_to_file(data, file, io)
                   IN  (r.ok /\ file' = r.file) => (file' = Regular(data) /\ data' = data)]_vars

\* back in Navigation mode after the save of a buffer of two bytes that was
\* typed from nothing (the buffer was first allocated by da_append)
C4_Witness ==
    /\ pc = "read"
    /\ ~insert
    /\ Len(data) >= 2
    /\ data_capacity = grown(0)
    /\ file = Regular(data)

(***************************************************************************)
(* C5.  Once the terminal is in raw mode, every exit of the process first  *)
(* restores the terminal mode and clears the screen.                       *)
(***************************************************************************)
C5_TerminalRestoredOnExit ==
    (pc = "exited" /\ terminal_prepared) => (~term_raw /\ screen_cleared)

(***************************************************************************)
(* C8.  A resize notification arriving at any point of the event loop is   *)
(* followed by a frame rendered with the terminal's new size before the    *)
(* next input event is processed: no key event is dispatched while the     *)
(* Display has other dimensions than the terminal.                         *)
(***************************************************************************)
C8_ResizeRendersBeforeNextInput ==
    [][(pc = "read" /\ \E seq \in Chunks : KeyStep(seq))
          => (d.rows = ws[1] /\ d.cols = ws[2])]_vars

(***************************************************************************)
(* C9.  For a decimal -gt value n and a loaded document of k lines the     *)
(* session starts with the cursor at line[min(n, k-1)].begin.              *)
(***************************************************************************)
\* the value of the last -gt of the command line: <<>> or <<value>>
RECURSIVE LastGotoValue(_, _)
LastGotoValue(args, found) ==
    IF args = <<>> THEN found
    ELSE IF Head(args) = GT
         THEN IF Len(args) < 2 THEN found
              ELSE LastGotoValue(Tail(Tail(args)), <<args[2]>>)
         ELSE LastGotoValue(Tail(args), found)

IsDecimal(str) == str # <<>> /\ \A i \in 1 .. Len(str) : isdigit(str[i])

\* min(the number a decimal numeral denotes, cap)
RECURSIVE DecimalUpTo(_, _, _, _)
DecimalUpTo(str, i, value, cap) ==
    IF i > Len(str) THEN value
    ELSE DecimalUpTo(str, i + 1, Min(value * 10 + (str[i] - 48), cap), cap)

RECURSIVE StripZeros(_)
StripZeros(str) == IF Len(str) > 1 /\ Head(str) = 48 THEN StripZeros(Tail(str)) ELSE str

\* numerals of equal length, compared digit by digit
RECURSIVE NumeralLess(_, _)
NumeralLess(a, b) ==
    IF a = <<>> THEN FALSE
    ELSE IF Head(a) # Head(b) THEN Head(a) < Head(b)
    ELSE NumeralLess(Tail(a), Tail(b))

TwoTo64 == Dec(<<1, 8, 4, 4, 6, 7, 4, 4, 0, 7, 3, 7, 0, 9, 5, 5, 1, 6, 1, 6>>)

\* the numeral denotes a number below 2^64
Below2To64(str) ==
    LET t == StripZeros(str)
    IN  Len(t) < Len(TwoTo64) \/ (Len(t) = Len(TwoTo64) /\ NumeralLess(t, TwoTo64))

\* main() has loaded the document and set the cursor
Loaded == pc = "start" /\ pc' = "interactive"

GotoGiven == LastGotoValue(argv, <<>>) # <<>> /\ IsDecimal(LastGotoValue(argv, <<>>)[1])

\* as claimed: for a value of any magnitude
C9_GotoClampsAnyMagnitude ==
    [][(Loaded /\ GotoGiven) =>
          LET k == Len(lines')
              n == DecimalUpTo(LastGotoValue(argv, <<>>)[1], 1, 0, k)
          IN  cursor' = lines'[Min(n, k - 1) + 1].begin]_vars

\* as amended: a value below 2^64 is clamped to the last line; a larger one is
\* first reduced modulo 2^64
C9_GotoClampsBelow2To64 ==
    [][(Loaded /\ GotoGiven) =>
          LET k == Len(lines')
              v == LastGotoValue(argv, <<>>)[1]
              n == DecimalUpTo(v, 1, 0, k)
              w == decimal_string_as_uint64_with_overflow(v).value
          IN  IF Below2To64(v)
              THEN cursor' = lines'[Min(n, k - 1) + 1].begin
              ELSE cursor' = lines'[(IF u64_ge(w, k) THEN k - 1 ELSE w[1]) + 1].begin]_vars

\* a document of three lines loaded with the cursor on its last line
C9_Witness == pc = "interactive" /\ Len(lines) = 3 /\ cursor = lines[3].begin

(***************************************************************************)
(* C10.  With no path, a -gt without a value, a -gt value that is not a    *)
(* non-negative decimal integer, or more than one path, the process exits  *)
(* with status 1 and has loaded nothing, not touched the terminal and not  *)
(* written the file.                                                       *)
(***************************************************************************)
RECURSIVE UsageError(_, _)
UsageError(args, paths) ==
    IF args = <<>> THEN paths # 1
    ELSE IF Head(args) = GT
         THEN Len(args) < 2 \/ ~IsDecimal(args[2]) \/ UsageError(Tail(Tail(args)), paths)
         ELSE UsageError(Tail(args), paths + 1)

C10_UsageErrorsExit ==
    [][(pc = "start" /\ UsageError(argv, 0)) =>
          /\ pc' = "exited"
          /\ status' = 1
          /\ file' = file
          /\ data' = <<>> /\ lines' = <<>>
          /\ ~term_raw' /\ ~terminal_prepared']_vars

(***************************************************************************)
(* Persistence: a session that holds any buffer in Insertion mode leaves   *)
(* the mode (which saves), quits, and the program is started again on the  *)
(* same path.                                                              *)
(***************************************************************************)
InitPersist ==
    /\ InitSession
    /\ file = IF data = <<>> THEN Absent ELSE Regular(data)
    /\ insert

\* the program is run again on the path; the file and the terminal stay
Relaunch ==
    /\ pc = "exited"
    /\ pc' = "start"
    /\ argv' = <<PathA>>
    /\ data' = <<>>
    /\ data_capacity' = 0
    /\ lines' = <<>>
    /\ cursor' = 0
    /\ view_row' = 0
    /\ view_col' = 0
    /\ insert' = FALSE
    /\ d' = Display(0, 0, 0, 0)
    /\ terminal_prepared' = FALSE
    /\ sa_restart' = FALSE
    /\ status' = -1
    /\ term_raw' = FALSE
    /\ screen_cleared' = FALSE
    /\ UNCHANGED <<file, ws, last_saved, pending>>

PersistChunks == {ES_ESCAPE, ES_ESCAPE \o <<SP>>, <<SP>>, <<113>>}

\* the keys of the scenario: nothing is typed
PersistKey(seq, env) ==
    /\ dispatch(insert, seq).op = "none"
    /\ KeyIn(seq, env, {}, 0)
    /\ last_saved' = Recorded(seq, env)
    /\ UNCHANGED pending

NextPersist ==
    \/ \E seq \in PersistChunks : \E env \in KeyEnvs(seq) : PersistKey(seq, env)
    \/ Relaunch
    \/ \E env \in MainEnvs : Main(env)
    \/ \E failing \in SetupFailures : StartInteractive(failing, FALSE)

SpecPersist == InitPersist /\ [][NextPersist]_vars

(***************************************************************************)
(* C6.  Saving the buffer and then loading the same path yields the same   *)
(* bytes and the same length, for every buffer, the empty one included,    *)
(* and under partial writes and reads: whenever main() has loaded the file *)
(* after a successful save, the buffer is the one that was saved.          *)
(***************************************************************************)
C6_SaveLoadRoundTrip ==
    (pc = "interactive" /\ last_saved.ok) =>
        /\ Len(data) = Len(last_saved.bytes)
        /\ data = last_saved.bytes

\* a saved buffer of several lines, loaded again
C6_Witness ==
    /\ pc = "interactive"
    /\ last_saved.ok
    /\ Len(lines) >= 2
    /\ Len(data) >= 3
    /\ data = last_saved.bytes

\* the empty buffer, saved and loaded again
C6_WitnessEmpty == pc = "interactive" /\ last_saved.ok /\ data = <<>> /\ file = Regular(<<>>)

(***************************************************************************)
(* C11.  Loading a path that does not exist succeeds and gives an empty    *)
(* buffer with the one line (0,0): main() then enters the interactive      *)
(* session with that buffer unless the command line is in error or the     *)
(* line index cannot be allocated.  Loading a path that exists and is not  *)
(* a regular file fails: the process exits with status 1 and never enters  *)
(* the interactive session.                                                *)
(***************************************************************************)
MissingFileLoadsEmpty ==
    (pc = "start" /\ file = Absent) =>
        /\ \A io \in OpenIOs(file) :
              LET r == editor_open_file(file, io)
              IN  r.ok /\ r.data = <<>> /\ r.lines = <<Line(0, 0)>>
        /\ pc' = "interactive" => (data' = <<>> /\ lines' = <<Line(0, 0)>> /\ cursor' = 0)
        /\ (parse_args(argv, <<>>, u64_zero).ok /\ pc' = "exited") =>
              \E env \in MainEnvs : ~env.lines_ok /\ Main(env)

NotRegularFileFails ==
    (pc = "start" /\ file = NotRegular) =>
        /\ \A io \in OpenIOs(file) : ~editor_open_file(file, io).ok
        /\ pc' = "exited" /\ status' = 1 /\ ~term_raw' /\ ~terminal_prepared'
        /\ file' = file

C11_MissingAndNotRegular == [][MissingFileLoadsEmpty /\ NotRegularFileFails]_vars

\* the session entered on a path that does not exist
C11_Witness ==
    /\ pc = "interactive"
    /\ file = Absent
    /\ data = <<>>
    /\ lines = <<Line(0, 0)>>

\* the exit on a path that is not a regular file, the command line being right
C11_WitnessNotRegular ==
    /\ pc = "exited"
    /\ file = NotRegular
    /\ status = 1
    /\ argv = <<>>

(***************************************************************************)
(* C12.  When the save fails (the file cannot be opened or a write fails)  *)
(* the session keeps running: the buffer bytes, the length, the cursor and *)
(* the line index are unchanged, the mode is Navigation, and the process   *)
(* is back in read().  The save is attempted again on every later          *)
(* Insertion to Navigation transition, whatever the file holds by then.    *)
(***************************************************************************)
\* the step is a key leaving Insertion mode whose save under io fails
FailedSave(io) ==
    /\ pc = "read"
    /\ insert
    /\ ~editor_save_to_file(data, file, io).ok
    /\ \E seq \in LeaveChunks : Key(seq, SaveEnv(io))

C12_FailedSaveKeepsSession ==
    [][/\ \A io \in SaveIOs :
             FailedSave(io) =>
                 /\ pc' = "read"
                 /\ data' = data /\ Len(data') = Len(data)
                 /\ cursor' = cursor
                 /\ lines' = lines
                 /\ ~insert'
       /\ (LeavesInsertion /\ file # Regular(data)) => \E io \in SaveIOs : SavedWith(io)]_vars

\* back in Navigation mode after a save that failed: the buffer is text that
\* was loaded or typed in Insertion mode, and the file is empty or holds a
\* part of it
C12_Witness ==
    /\ pc = "read"
    /\ ~insert
    /\ data = <<113, 113>>
    /\ data_capacity = 2
    /\ file.kind = "regular"
    /\ Len(file.bytes) < 2

(***************************************************************************)
(* C13.  If stdin or stdout is not a terminal, or the terminal attributes  *)
(* cannot be read or set, the interactive session returns 1 before any     *)
(* input event is processed: the buffer is unchanged, no file is written,  *)
(* the terminal is not in raw mode and nothing is restored or cleared.     *)
(***************************************************************************)
TerminalSetupFailures == {"isatty", "tcgetattr", "tcsetattr"}

C13_TerminalSetupFailureExits ==
    [][\A failing \in TerminalSetupFailures : \A restart \in BOOLEAN :
          StartInteractive(failing, restart) =>
              /\ pc' = "exited" /\ status' = 1
              /\ data' = data /\ lines' = lines /\ cursor' = cursor
              /\ file' = file
              /\ ~terminal_prepared'
              /\ ~term_raw'
              /\ ~screen_cleared']_vars

\* the exit of a session that had loaded a file and never prepared the terminal
C13_Witness ==
    /\ pc = "exited"
    /\ status = 1
    /\ ~terminal_prepared
    /\ Len(data) >= 1
    /\ file = Regular(data)
    /\ ~term_raw /\ ~screen_cleared

(***************************************************************************)
(* C14.  The session ends only on the quit key 'q' received in Navigation  *)
(* mode, with status 0, or on an input read error, with status 1; 'q'      *)
(* received in Insertion mode is inserted as text and does not end the     *)
(* session.  Failures of the environment (no memory for the buffer, a      *)
(* failed TIOCGWINSZ or realloc in display_resize) are left aside: a       *)
(* session whose allocations and ioctls all succeed ends in no other way.  *)
(***************************************************************************)
\* the step is the end of the session by a failure of the environment
EnvironmentFailure ==
    \/ \E size \in Sizes : Resize(size, TRUE, FALSE)
    \/ \E seq \in Chunks : \E env \in KeyEnvs(seq) : ~env.alloc_ok /\ Key(seq, env)

QuitInNavigation ==
    /\ ~insert
    /\ status' = 0
    /\ \E seq \in Chunks : cstr(seq) = <<113>> /\ KeyStep(seq)

QInsertedAsText ==
    (pc = "read" /\ insert /\ KeyStep(<<113>>) /\ ~EnvironmentFailure) =>
        /\ pc' = "read"
        /\ insert'
        /\ data' = InsertAt(data, Min(cursor, Len(data)), 113)

C14_SessionEndsOnlyOnQuitOrReadError ==
    [][/\ (pc = "read" /\ pc' = "exited" /\ ~EnvironmentFailure) =>
             \/ QuitInNavigation
             \/ ReadError /\ status' = 1
       /\ QInsertedAsText]_vars

(***************************************************************************)
(* C15.  insert(b) at cursor c, first clamped to [0, length], makes the    *)
(* buffer one byte longer, leaves the bytes before c as they were, puts b  *)
(* at index c, moves every old byte at index i >= c to index i + 1 and     *)
(* sets the cursor to c + 1; the line index is rebuilt.  Inserting 'X' at  *)
(* cursor 2 of "ab\ncd" gives "abX\ncd", cursor 3, lines (0,3), (4,6).     *)
(***************************************************************************)
InsertBytes == {NL, SP, 88, 126}

InsertedAt(items, c0, b) ==
    LET c == Min(c0, Len(items))
        r == editor_insert_char(Ed(items, editor_recompute_lines(items), c0), b)
    IN  /\ r.fault = "none"
        /\ Len(r.data) = Len(items) + 1
        /\ \A i \in 0 .. c - 1 : r.data[i + 1] = items[i + 1]
        /\ r.data[c + 1] = b
        /\ \A i \in c .. Len(items) - 1 : r.data[i + 2] = items[i + 1]
        /\ r.cursor = c + 1
        /\ LineIndexWellFormed(r.lines, r.data)
        /\ \A k \in 1 .. Len(r.lines) - 1 : r.data[r.lines[k].end + 1] = NL

InsertExample ==
    editor_insert_char(Ed(<<97, 98, NL, 99, 100>>, <<Line(0, 2), Line(3, 5)>>, 2), 88)
        = Ed(<<97, 98, 88, NL, 99, 100>>, <<Line(0, 3), Line(4, 6)>>, 3)

C15_InsertShiftsRight ==
    pc = "read" =>
        /\ \A c0 \in 0 .. Len(data) + 2 : \A b \in InsertBytes : InsertedAt(data, c0, b)
        /\ InsertExample

\* a buffer typed from nothing, the cursor moved back inside it
C15_Witness ==
    /\ pc = "read"
    /\ data_capacity = grown(0)
    /\ Len(data) >= 3
    /\ 0 < cursor /\ cursor < Len(data)
    /\ Len(lines) >= 2

(***************************************************************************)
(* C16.  delete_forward changes nothing (bytes, length, cursor, lines)     *)
(* when cursor >= length; otherwise it removes exactly the byte at the     *)
(* cursor, moves the later bytes down by one, makes the buffer one byte    *)
(* shorter and leaves the cursor where it was.                             *)
(***************************************************************************)
\* r.data is items without the byte at index at
Removed(items, at, r) ==
    /\ Len(r.data) = Len(items) - 1
    /\ \A i \in 0 .. at - 1 : r.data[i + 1] = items[i + 1]
    /\ \A i \in at + 1 .. Len(items) - 1 : r.data[i] = items[i + 1]
    /\ LineIndexWellFormed(r.lines, r.data)
    /\ \A k \in 1 .. Len(r.lines) - 1 : r.data[r.lines[k].end + 1] = NL

DeletedForward(items, c) ==
    LET e == Ed(items, editor_recompute_lines(items), c)
        r == editor_delete_char(e)
    IN  IF c >= Len(items)
        THEN r = e
        ELSE r.fault = "none" /\ Removed(items, c, r) /\ r.cursor = c

C16_DeleteForward ==
    pc = "read" => \A c \in 0 .. Len(data) + 2 : DeletedForward(data, c)

\* a loaded buffer that deletes have shortened by two bytes, lines left in it
C16_Witness ==
    /\ pc = "read"
    /\ data_capacity = MaxEditLen
    /\ Len(data) = MaxEditLen - 2
    /\ Len(lines) >= 2
    /\ cursor = 0

(***************************************************************************)
(* C17.  delete_backward changes nothing (bytes, length, cursor, lines)    *)
(* when the cursor is 0; otherwise it removes exactly the byte at index    *)
(* cursor - 1, moves the later bytes down by one and makes both the length *)
(* and the cursor one smaller.                                             *)
(***************************************************************************)
DeletedBackward(items, c) ==
    LET e == Ed(items, editor_recompute_lines(items), c)
        r == editor_backdelete_char(e)
    IN  IF c = 0
        THEN r = e
        ELSE r.fault = "none" /\ Removed(items, c - 1, r) /\ r.cursor = c - 1

C17_DeleteBackward ==
    pc = "read" => \A c \in 0 .. Len(data) : DeletedBackward(data, c)

\* a loaded buffer that deletes have shortened by two bytes, the cursor at
\* its end
C17_Witness ==
    /\ pc = "read"
    /\ data_capacity = MaxEditLen
    /\ Len(data) = MaxEditLen - 2
    /\ Len(lines) >= 2
    /\ cursor = Len(data)

(***************************************************************************)
(* C18.  For every rebuilt line index and every cursor in [0, length]      *)
(* exactly one line i has line[i].begin <= cursor <= line[i].end, and      *)
(* editor_current_line returns that i; the result 0 of the fall-through is *)
(* never given for a cursor that line 0 does not hold.  In "ab\ncd\n" the  *)
(* cursor 4 is on line 1 at column 1.                                      *)
(***************************************************************************)
LinesHolding(ls, c) == {i \in 0 .. Len(ls) - 1 : ls[i + 1].begin <= c /\ c <= ls[i + 1].end}

CurrentLineIsTheOne(items, c) ==
    LET ls == editor_recompute_lines(items)
        e  == Ed(items, ls, c)
    IN  /\ current_line_asserts(e)
        /\ Cardinality(LinesHolding(ls, c)) = 1
        /\ LinesHolding(ls, c) = {editor_current_line(e)}

CurrentLineExample ==
    LET items == <<97, 98, NL, 99, 100, NL>>
        e     == Ed(items, editor_recompute_lines(items), 4)
    IN  /\ editor_current_line(e) = 1
        /\ e.cursor - e.lines[editor_current_line(e) + 1].begin = 1

C18_CurrentLineUnique ==
    pc = "read" =>
        /\ lines = editor_recompute_lines(data)
        /\ \A c \in 0 .. Len(data) : CurrentLineIsTheOne(data, c)
        /\ CurrentLineExample

\* the cursor at the end of a line that is neither the first nor the last,
\* after an edit
C18_Witness ==
    /\ pc = "read"
    /\ Len(lines) >= 3
    /\ cursor = lines[2].end
    /\ lines[2].end > lines[2].begin
    /\ data_capacity # Len(data)

(***************************************************************************)
(* C19.  In Navigation mode 'w' moves the cursor to the previous line and  *)
(* 's' to the next line, to the offset min(target.begin + column,          *)
(* target.end) where column = cursor - current_line.begin; 'w' on the      *)
(* first line and 's' on the last line leave the cursor where it is.  The  *)
(* buffer is not changed.                                                  *)
(***************************************************************************)
EditStep(seq) == \E env \in KeyEnvs(seq) : EditKey(seq, env)

\* the line that holds the offset c
LineOf(ls, c) == CHOOSE i \in LinesHolding(ls, c) : TRUE

\* the offset on the line `target` for a cursor c that is not on it
OnLine(ls, c, target) ==
    LET column == c - ls[LineOf(ls, c) + 1].begin
    IN  Min(ls[target + 1].begin + column, ls[target + 1].end)

C19_LineUpDownKeys ==
    [][(pc = "read" /\ ~insert /\ cursor <= Len(data)) =>
          LET row == LineOf(lines, cursor)
          IN  /\ EditStep(<<119>>) =>
                    /\ pc' = "read" /\ data' = data /\ lines' = lines
                    /\ cursor' = IF row = 0 THEN cursor ELSE OnLine(lines, cursor, row - 1)
              /\ EditStep(<<115>>) =>
                    /\ pc' = "read" /\ data' = data /\ lines' = lines
                    /\ cursor' = IF row = Len(lines) - 1 THEN cursor
                                 ELSE OnLine(lines, cursor, row + 1)]_vars

\* Navigation mode, the cursor past the first column of a middle line whose
\* neighbours are shorter
C19_Witness ==
    /\ pc = "read"
    /\ ~insert
    /\ Len(lines) = 3
    /\ lines[2].begin < cursor /\ cursor <= lines[2].end
    /\ lines[1].end = 0
    /\ lines[3].begin = lines[3].end

(***************************************************************************)
(* C20.  word_right, from any cursor in [0, length] of any buffer, the     *)
(* empty one included, first advances over non-alphanumeric bytes and then *)
(* over alphanumeric bytes, one byte per step; it never reads a byte at an *)
(* index >= length and its scan never moves the cursor above length - 1.   *)
(* From cursor 0 in "  foo bar" it stops at cursor 5.                      *)
(***************************************************************************)
\* the cursor after advancing from c while c < length - 1 and the byte at c
\* is alphanumeric (alnum) or not (~alnum)
RECURSIVE Advance(_, _, _)
Advance(items, c, alnum) ==
    IF c < Len(items) - 1 /\ (isalnum(items[c + 1]) <=> alnum)
    THEN Advance(items, c + 1, alnum)
    ELSE c

WordRightFrom(items, c, oob) ==
    LET r == editor_move_word_right(Ed(items, editor_recompute_lines(items), c), oob)
    IN  /\ r.fault = "none"
        /\ r.cursor = Advance(items, Advance(items, c, FALSE), TRUE)
        /\ r.cursor # c => r.cursor <= Len(items) - 1
        /\ r.data = items
        /\ \A i \in move_word_right_reads(items, oob, c) : i < Len(items)

WordRightExample ==
    LET items == <<SP, SP, 102, 111, 111, SP, 98, 97, 114>>
    IN  editor_move_word_right(Ed(items, editor_recompute_lines(items), 0), <<>>).cursor = 5

C20_WordRightStaysInside ==
    pc = "read" =>
        /\ WordRightExample
        /\ \A c \in 0 .. Len(data) : \A oob \in OobSeqs : WordRightFrom(data, c, oob)

(***************************************************************************)
(* C21.  paragraph_down (paragraph_up), from any line, skips the blank     *)
(* lines next to it, then the non-blank lines, and sets the cursor to the  *)
(* begin of the first blank line found in that direction; when there is no *)
(* such blank line the cursor lands at the buffer end, the length (at the  *)
(* buffer start, 0).                                                       *)
(***************************************************************************)
Blank(ls, i) == ls[i + 1].begin = ls[i + 1].end

SetMin(S) == CHOOSE x \in S : \A y \in S : x <= y

SetMax(S) == CHOOSE x \in S : \A y \in S : x >= y

\* where paragraph_down is to land from the line row
ParagraphDownTarget(ls, row, length) ==
    LET text == {i \in row .. Len(ls) - 1 : ~Blank(ls, i)}
    IN  IF text = {} THEN length
        ELSE LET blank == {i \in SetMin(text) .. Len(ls) - 1 : Blank(ls, i)}
             IN  IF blank = {} THEN length ELSE ls[SetMin(blank) + 1].begin

\* where paragraph_up is to land from the line row
ParagraphUpTarget(ls, row) ==
    LET text == {i \in 0 .. row : ~Blank(ls, i)}
    IN  IF text = {} THEN 0
        ELSE LET blank == {i \in 0 .. SetMax(text) : Blank(ls, i)}
             IN  IF blank = {} THEN 0 ELSE ls[SetMax(blank) + 1].begin

ParagraphUpFrom(items, c) ==
    LET ls == editor_recompute_lines(items)
        r  == editor_move_paragraph_up(Ed(items, ls, c))
    IN  /\ r.fault = "none"
        /\ r.data = items
        /\ r.cursor = ParagraphUpTarget(ls, LineOf(ls, c))

ParagraphDownFrom(items, c) ==
    LET ls == editor_recompute_lines(items)
        r  == editor_move_paragraph_down(Ed(items, ls, c))
    IN  /\ r.fault = "none"
        /\ r.data = items
        /\ r.cursor = ParagraphDownTarget(ls, LineOf(ls, c), Len(items))

C21_ParagraphMoves ==
    pc = "read" =>
        \A c \in 0 .. Len(data) : ParagraphUpFrom(data, c) /\ ParagraphDownFrom(data, c)

(***************************************************************************)
(* C22.  to_buffer_start followed by to_buffer_end leaves the cursor at    *)
(* the length, for every buffer and every prior cursor; to_line_start and  *)
(* to_line_end set the cursor to the begin and to the end of the line that *)
(* held the cursor.  None of them changes the buffer.                      *)
(***************************************************************************)
StartThenEnd(items, c) ==
    LET e == Ed(items, editor_recompute_lines(items), c)
        r == editor_move_to_buffer_end(editor_move_to_buffer_start(e))
    IN  r = [e EXCEPT !.cursor = Len(items)]

LineStartEnd(items, c) ==
    LET ls  == editor_recompute_lines(items)
        e   == Ed(items, ls, c)
        row == LineOf(ls, c)
    IN  /\ editor_move_to_line_start(e) = [e EXCEPT !.cursor = ls[row + 1].begin]
        /\ editor_move_to_line_end(e) = [e EXCEPT !.cursor = ls[row + 1].end]

C22_BufferAndLineEnds ==
    pc = "read" =>
        /\ \A c \in 0 .. Len(data) + 2 : StartThenEnd(data, c)
        /\ \A c \in 0 .. Len(data) : LineStartEnd(data, c)

\* Navigation mode, the cursor at the end of a buffer whose last line is not
\* its first and is not empty
C22_Witness ==
    /\ pc = "read"
    /\ ~insert
    /\ cursor = Len(data)
    /\ Len(lines) >= 2
    /\ lines[Len(lines)].begin < Len(data)

(***************************************************************************)
(* The renderer on its own: a session that has loaded a file whose lines   *)
(* are empty or wider than the terminal, and then receives movement keys,  *)
(* mode toggles and resize notifications.  No key edits the buffer, and    *)
(* the file is read-only.                                                  *)
(***************************************************************************)
MaxWide == 13

MaxRows == 3

\* a line of w letters: a, b, c, ...
Row(w) == [j \in 1 .. w |-> 96 + j]

\* n empty lines
Blanks(n) == [j \in 1 .. n |-> NL]

\* one wide line among empty ones, at most MaxRows lines
RenderBuffers ==
    {Blanks(ab[1]) \o Row(MaxWide) \o Blanks(ab[2]) :
        ab \in {x \in (0 .. MaxRows - 1) \X (0 .. MaxRows - 1) : x[1] + x[2] < MaxRows}}

RenderSizes ==
    {<<2, LabelLen>>, <<3, LabelLen>>, <<3, LabelLen - 1>>}

RenderChunks == {<<>>, <<SP>>, ES_ESCAPE} \cup {<<k>> : k \in DOMAIN MoveKeys}

\* the session in its first read(), the file loaded without a goto line
InitRender ==
    /\ pc = "read"
    /\ argv = <<>>
    /\ data \in RenderBuffers
    /\ file = Regular(data)
    /\ data_capacity = Len(data)
    /\ lines = editor_recompute_lines(data)
    /\ cursor = 0
    /\ insert = FALSE
    /\ ws \in RenderSizes
    /\ LET r == editor_rerender(CurEd, 0, 0, insert, display_resize(Display(0, 0, 0, 0), ws))
       IN  view_row = r.view_row /\ view_col = r.view_col /\ d = r.d
    /\ term_raw = TRUE
    /\ screen_cleared = FALSE
    /\ terminal_prepared = TRUE
    /\ sa_restart = FALSE
    /\ status = -1
    /\ last_saved = NeverSaved
    /\ pending = <<>>

\* a key that moves or toggles the mode; in Insertion mode no text is typed,
\* and the file cannot be opened for writing: the save on leaving Insertion
\* mode fails
RenderKey(seq, env) ==
    /\ \/ insert
       \/ seq # <<113>>
    /\ dispatch(insert, seq).save => ~env.io.open_ok
    /\ KeyIn(seq, env, {}, 0)
    /\ UNCHANGED <<last_saved, pending>>

NextRender ==
    \/ \E seq \in RenderChunks : \E env \in KeyEnvs(seq) : RenderKey(seq, env)
    \/ \E size \in RenderSizes : Resize(size, TRUE, TRUE)

SpecRender == InitRender /\ [][NextRender]_vars

(***************************************************************************)
(* C23.  After every render pass that is not skipped the cursor is         *)
(* visible: view_row <= cursor line < view_row + (rows - 1) and            *)
(* view_col <= cursor column < view_col + cols.  view_row changes only by  *)
(* snapping up to the cursor line when that line is above the window, or   *)
(* down so that the cursor line is the last visible text row when it is    *)
(* below.                                                                  *)
(***************************************************************************)
\* the session is in read() and the frame on the screen was not skipped
Rendered(dd) == dd.rows >= 2 /\ dd.cols >= LabelLen

CursorLine(ls, c) == LineOf(ls, c)

CursorColumn(ls, c) == c - ls[LineOf(ls, c) + 1].begin

CursorVisible ==
    /\ view_row <= CursorLine(lines, cursor)
    /\ CursorLine(lines, cursor) < view_row + (d.rows - 1)
    /\ view_col <= CursorColumn(lines, cursor)
    /\ CursorColumn(lines, cursor) < view_col + d.cols

ViewRowSnaps ==
    (pc' = "read" /\ Rendered(d') /\ view_row' # view_row) =>
        LET line == CursorLine(lines', cursor')
            text == d'.rows - 1
        IN  \/ line < view_row /\ view_row' = line
            \/ line >= view_row + text /\ view_row' + text - 1 = line

C23_CursorVisible ==
    /\ [](pc = "read" /\ Rendered(d) => CursorVisible)
    /\ [][ViewRowSnaps]_vars

\* a frame of two text rows scrolled down and to the right
C23_Witness ==
    /\ pc = "read"
    /\ Rendered(d)
    /\ d.rows = 3
    /\ view_row > 0
    /\ view_col > 0

(***************************************************************************)
(* C24.  After every render pass that is not skipped the on-screen cursor  *)
(* is relative to the viewport: cursor_row = cursor line - view_row with   *)
(* cursor_row < rows - 1, and cursor_col = cursor column - view_col with   *)
(* cursor_col < cols.                                                      *)
(***************************************************************************)
OnScreenRow ==
    /\ d.cursor_row = CursorLine(lines, cursor) - view_row
    /\ d.cursor_row < d.rows - 1

OnScreenColumn ==
    /\ d.cursor_col = CursorColumn(lines, cursor) - view_col
    /\ d.cursor_col < d.cols

C24_OnScreenCursor == (pc = "read" /\ Rendered(d)) => (OnScreenRow /\ OnScreenColumn)

\* the row is relative to the viewport
C24_RowRelative == (pc = "read" /\ Rendered(d)) => OnScreenRow

\* the column is relative to the viewport as long as the view is not scrolled
\* to the right
C24_ColumnUnscrolled == (pc = "read" /\ Rendered(d) /\ view_col = 0) => OnScreenColumn

(***************************************************************************)
(* C25.  When the terminal has fewer than 2 rows or fewer columns than the *)
(* mode-indicator label is long, the render pass is skipped without        *)
(* failing: view_row, view_col, the buffer, the cursor and the mode are    *)
(* unchanged, no line text is written to the grid, and the session goes    *)
(* on accepting input.                                                     *)
(***************************************************************************)
TooSmall(dd) == dd.rows < 2 \/ dd.cols < LabelLen

AllSpaces(chars) == \A k \in DOMAIN chars : chars[k] = SP

\* the displays of at most 3 rows and LabelLen columns that are too small
SmallDisplays ==
    {dd \in {[d EXCEPT !.rows = r, !.cols = c] : r \in 0 .. 3, c \in 0 .. LabelLen} :
        TooSmall(dd)}

\* the pass into a too small display of any state waiting in read()
PassSkipped(dd) ==
    LET r == editor_rerender(CurEd, view_row, view_col, insert, dd)
    IN  /\ r.fault = "none"
        /\ r.view_row = view_row /\ r.view_col = view_col
        /\ Len(r.d.chars) = dd.rows * dd.cols /\ AllSpaces(r.d.chars)

\* the frame after the terminal became too small
SkippedOnResize ==
    (pc = "read" /\ ws' # ws /\ TooSmall(d')) =>
        /\ pc' = "read"
        /\ <<view_row, view_col, data, lines, cursor, insert>>' =
               <<view_row, view_col, data, lines, cursor, insert>>
        /\ AllSpaces(d'.chars)

\* the frame after a key received while the terminal is too small
SkippedAfterKey ==
    (pc = "read" /\ ws' = ws /\ TooSmall(d)) =>
        /\ pc' = "read"
        /\ <<view_row, view_col>>' = <<view_row, view_col>>
        /\ AllSpaces(d'.chars)

C25_SmallTerminalSkipsRender ==
    /\ [](pc = "read" => \A dd \in SmallDisplays : PassSkipped(dd))
    /\ [][SkippedOnResize /\ SkippedAfterKey]_vars

\* on a terminal that is too narrow the cursor has been moved to the end of
\* the wide line and Insertion mode entered, and the view is where it was
C25_Witness ==
    /\ pc = "read"
    /\ TooSmall(d)
    /\ insert
    /\ view_col = 0
    /\ CursorColumn(lines, cursor) >= MaxWide

(***************************************************************************)
(* C26.  After a render pass that is not skipped, every text row           *)
(* i < rows - 1 holds, if view_row + i is an existing line, the bytes of   *)
(* that line from column min(view_col, line length) on, at most cols of    *)
(* them, padded with spaces, and otherwise the filler '~' followed by      *)
(* spaces; the last row holds the mode-indicator label exactly when the    *)
(* mode is Insertion, and is blank otherwise.                              *)
(***************************************************************************)
GridRow(i) == SubSeq(d.chars, i * d.cols + 1, (i + 1) * d.cols)

Padded(bytes, n) == bytes \o [k \in 1 .. n - Len(bytes) |-> SP]

TextRow(i) ==
    LET row == view_row + i
    IN  IF row < Len(lines)
        THEN LET from == lines[row + 1].begin + Min(view_col, line_size(lines, row))
                 upto == Min(from + d.cols, lines[row + 1].end)
             IN  Padded(SubSeq(data, from + 1, upto), d.cols)
        ELSE Padded(<<Tilde>>, d.cols)

LastRow == Padded(IF insert THEN insert_label ELSE <<>>, d.cols)

C26_GridContents ==
    (pc = "read" /\ Rendered(d)) =>
        /\ Len(d.chars) = d.rows * d.cols
        /\ \A i \in 0 .. d.rows - 2 : GridRow(i) = TextRow(i)
        /\ GridRow(d.rows - 1) = LastRow

\* a frame scrolled to the right that shows the end of the wide line, a
\* filler row and the label
C26_Witness ==
    /\ pc = "read"
    /\ Rendered(d)
    /\ d.rows = 3
    /\ view_col > 0
    /\ insert
    /\ d.chars[1] = 96 + view_col + 1
    /\ d.chars[d.cols + 1] = Tilde
    /\ d.chars[2 * d.cols + 1] = 45

(***************************************************************************)
(* C27.  In Insertion mode a single displayable byte (' ' .. '~') is       *)
(* inserted verbatim at the cursor and Enter inserts a newline, while any  *)
(* single byte that is neither displayable nor bound (not Escape, not      *)
(* Backspace, not newline) leaves the buffer, the cursor, the line index   *)
(* and the mode unchanged.                                                 *)
(***************************************************************************)
Bytes == 0 .. 255

Displayable == 32 .. 126

\* the editor after read() returned the single byte b in Insertion mode
AfterByte(b) == apply(CurEd, dispatch(TRUE, <<b>>), <<>>)

StaysInInsertion(b) ==
    LET ev == dispatch(TRUE, <<b>>)
    IN  ev.insert /\ ~ev.quit /\ ~ev.save

InsertsVerbatim(b) ==
    /\ StaysInInsertion(b)
    /\ AfterByte(b).fault = "none"
    /\ AfterByte(b).data =
           SubSeq(data, 1, cursor) \o <<b>> \o SubSeq(data, cursor + 1, Len(data))
    /\ AfterByte(b).cursor = cursor + 1

Ignored(b) == StaysInInsertion(b) /\ AfterByte(b) = CurEd

\* the keys typed in the sessions: their iterations do what the event asks
TypedInInsertion ==
    (pc = "read" /\ insert) =>
        \A b \in EditAlphabet :
            EditStep(<<b>>) =>
                /\ pc' = "read" /\ insert'
                /\ data' = SubSeq(data, 1, cursor) \o <<b>> \o SubSeq(data, cursor + 1, Len(data))
                /\ cursor' = cursor + 1

C27_InsertionModeBytes ==
    /\ []((pc = "read" /\ insert) =>
             \A b \in Bytes :
                 IF b \in Displayable \cup {NL} THEN InsertsVerbatim(b)
                 ELSE b \notin {27, 127} => Ignored(b))
    /\ [][TypedInInsertion]_vars

\* a buffer typed from nothing in Insertion mode: a byte and a newline
C27_Witness ==
    /\ pc = "read"
    /\ insert
    /\ data_capacity = grown(0)
    /\ Len(data) >= 2
    /\ data[cursor] = 113
    /\ \E i \in 1 .. Len(data) : data[i] = NL

(***************************************************************************)
(* Input longer than one read(): the terminal delivers a sequence of more  *)
(* than MAX_ESC_SEQ_LEN bytes at once (a paste, a long escape sequence).   *)
(* read() returns its first MAX_ESC_SEQ_LEN bytes and leaves the others in *)
(* the terminal's queue, from which the next read() returns them.          *)
(***************************************************************************)
\* what follows the first MAX_ESC_SEQ_LEN bytes
Tails == {<<113>>, <<SP>>, <<NL>>, ES_BACKSPACE}

LongSeqs == {Oversized \o tail : tail \in Tails}

\* the bytes one read() takes from the queue q
taken(q) == SubSeq(q, 1, Min(Len(q), MAX_ESC_SEQ_LEN))

left(q) == SubSeq(q, Len(taken(q)) + 1, Len(q))

\* the sequence seq arrives while the process waits in read()
ReadHead(seq, env) ==
    /\ pending = <<>>
    /\ KeyIn(taken(seq), env, EditAlphabet, MaxEditLen)
    /\ pending' = left(seq)
    /\ UNCHANGED last_saved

\* the next read() finds bytes in the queue
ReadPending(env) ==
    /\ pending # <<>>
    /\ env.alloc_ok
    /\ KeyIn(taken(pending), env, EditAlphabet, MaxEditLen)
    /\ pending' = left(pending)
    /\ UNCHANGED last_saved

NextBurst ==
    \/ \E seq \in LongSeqs : \E env \in KeyEnvs(taken(seq)) : ReadHead(seq, env)
    \/ \E env \in KeyEnvs(taken(pending)) : ReadPending(env)

SpecBurst == InitEditor /\ [][NextBurst]_vars

(***************************************************************************)
(* C28.  An input sequence longer than the bounded read size (32 bytes) is *)
(* discarded as a whole: no part of it, the bytes left over for the        *)
(* following read included, is interpreted as a key event, so the buffer,  *)
(* the cursor and the mode are unchanged by it.                            *)
(***************************************************************************)
NothingInterpreted ==
    /\ pc' = "read"
    /\ <<data, lines, cursor, insert>>' = <<data, lines, cursor, insert>>

C28_LongSequenceDiscarded == [][pc = "read" => NothingInterpreted]_vars

\* the read() that returns the first MAX_ESC_SEQ_LEN bytes interprets nothing
C28_HeadDiscarded == [][(pc = "read" /\ pending = <<>>) => NothingInterpreted]_vars

(***************************************************************************)
(* C29.  Wherever the line index is read (current_line, every movement     *)
(* command, every render pass) it equals the full rebuild of the current   *)
(* buffer bytes: no mutation of the buffer is followed by a line query     *)
(* without a rebuild in between.  The index is read by the first frame     *)
(* (the session is about to start) and by the handler and the frame of     *)
(* every event (the session waits in read()).                              *)
(***************************************************************************)
\* ls is the index of items: the lines are the maximal runs without newline
FullRebuild(ls, items) ==
    /\ LineIndexWellFormed(ls, items)
    /\ \A k \in 1 .. Len(ls) :
          /\ \A i \in ls[k].begin + 1 .. ls[k].end : items[i] # NL
          /\ k < Len(ls) => items[ls[k].end + 1] = NL

C29_LineIndexNeverStale ==
    pc \in {"interactive", "read"} =>
        /\ lines = editor_recompute_lines(data)
        /\ FullRebuild(lines, data)

\* a file of one newline was loaded and a byte typed before it
C29_Witness ==
    /\ pc = "read"
    /\ file = Regular(<<NL>>)
    /\ data = <<113, NL>>
    /\ data_capacity = 2

(***************************************************************************)
(* C30.  view_row and view_col are changed only by the clamp of the render *)
(* pass that keeps the cursor visible: no key event in either mode and no  *)
(* resize notification modifies them directly.  After a step the view is   *)
(* the view before it, clamped to the cursor if a frame was rendered.      *)
(***************************************************************************)
Snap(view, pos, extent) ==
    IF pos < view THEN pos
    ELSE IF pos >= view + extent THEN pos - extent + 1
    ELSE view

ViewOnlyClamped ==
    IF pc' = "read" /\ Rendered(d')
    THEN /\ view_row' = Snap(view_row, CursorLine(lines', cursor'), d'.rows - 1)
         /\ view_col' = Snap(view_col, CursorColumn(lines', cursor'), d'.cols)
    ELSE <<view_row, view_col>>' = <<view_row, view_col>>

AllocChunks == {<<SP>>, <<NL>>, <<113>>, ES_BACKSPACE}

NextAlloc ==
    \/ \E env \in MainEnvs : Main(env)
    \/ \E failing \in SetupFailures, restart \in BOOLEAN : StartInteractive(failing, restart)
    \/ \E seq \in AllocChunks : \E env \in KeyEnvs(seq) : Key(seq, env)

SpecAlloc == Init /\ [][NextAlloc]_vars

\* the step is main() in which da_reserve or the first da_append fails
LoadAllocFails ==
    \E env \in MainEnvs :
        /\ LET r == editor_open_file(file, env.io)
           IN  (r.capacity > 0 /\ ~env.reserve_ok) \/ (r.ok /\ ~env.lines_ok)
        /\ Main(env)

\* the step is a key whose da_append cannot grow the buffer
KeyAllocFails ==
    /\ Len(data) >= data_capacity
    /\ \E seq \in Chunks :
          /\ Len(seq) < MAX_ESC_SEQ_LEN
          /\ dispatch(insert, seq).op = "insert"
          /\ \E env \in KeyEnvs(seq) : ~env.alloc_ok /\ Key(seq, env)

Terminated ==
    /\ pc' = "exited"
    /\ status' = 1
    /\ <<data, lines, cursor, file>>' = <<data, lines, cursor, file>>

C31_AllocationFailureIsFatal ==
    [][/\ (pc = "start" /\ LoadAllocFails) => Terminated
       /\ (pc = "read" /\ KeyAllocFails) => Terminated
       /\ pc # "exited"]_vars

\* the process ended in Insertion mode without the defer block, while no
\* resize could interrupt read(): the capacity was doubled for a buffer that
\* was full, and the buffer is as it was
C31_Witness ==
    /\ pc = "exited"
    /\ status = 1
    /\ term_raw
    /\ sa_restart
    /\ insert
    /\ Len(data) > 0
    /\ data_capacity = 2 * Len(data)

(***************************************************************************)
(* C32.  In every reachable state of a session the assertions of           *)
(* current_line hold when it is called: the cursor is at most the buffer   *)
(* length and the line index has at least one line.  It is called by the   *)
(* handlers of the line keys on the editor as it is, and by the render     *)
(* pass on the editor as the event left it.                                *)
(***************************************************************************)
\* the editor that the frame after the key seq is rendered from
AfterKey(seq, env) == apply(CurEd, dispatch(insert, seq), env.oob)

\* the calls that follow the key seq find their assertions true
CallsAssertAfter(seq) ==
    \A env \in KeyEnvs(seq) :
        AfterKey(seq, env).fault = "none" => current_line_asserts(AfterKey(seq, env))

C32_CurrentLineAssertionsHold ==
    pc = "read" =>
        /\ current_line_asserts(CurEd)
        /\ \A seq \in EditChunks : CallsAssertAfter(seq)

\* the assertions hold after every key but word_right
C32_HoldExceptWordRight ==
    pc = "read" =>
        /\ current_line_asserts(CurEd)
        /\ \A seq \in EditChunks \ {<<59>>} : CallsAssertAfter(seq)

(***************************************************************************)
(* C33.  Every leftward or upward movement command (char_left 'a', line up *)
(* 'w', word_left 'k', paragraph_up 'o', to_buffer_start 'O',              *)
(* to_line_start 'K') yields a cursor <= the old cursor, and every         *)
(* rightward or downward one (char_right 'd', line down 's', word_right    *)
(* ';', paragraph_down 'l', to_buffer_end 'L', to_line_end ':') yields a   *)
(* cursor >= the old cursor, for every buffer and cursor.                  *)
(***************************************************************************)
BackwardKeys == {97, 119, 107, 111, 79, 75}

ForwardKeys == {100, 115, 59, 108, 76, 58}

\* the editor after the Navigation key k, pressed with the cursor at c
Moved(k, c, env) == apply(Ed(data, lines, c), dispatch(FALSE, <<k>>), env.oob)

NeverForward(k, c) ==
    \A env \in KeyEnvs(<<k>>) :
        Moved(k, c, env).fault = "none" => Moved(k, c, env).cursor <= c

NeverBackward(k, c) ==
    \A env \in KeyEnvs(<<k>>) :
        Moved(k, c, env).fault = "none" => Moved(k, c, env).cursor >= c

C33_MovesKeepDirection ==
    (pc = "read" /\ ~insert) =>
        \A c \in 0 .. Len(data) :
            /\ \A k \in BackwardKeys : NeverForward(k, c)
            /\ \A k \in ForwardKeys : NeverBackward(k, c)

\* every command but paragraph_down keeps its direction
C33_AllButParagraphDown ==
    (pc = "read" /\ ~insert) =>
        \A c \in 0 .. Len(data) :
            /\ \A k \in BackwardKeys : NeverForward(k, c)
            /\ \A k \in ForwardKeys \ {108} : NeverBackward(k, c)

(***************************************************************************)
(* C34.  word_left changes the cursor only when 0 < cursor < length (it    *)
(* does nothing at cursor = length, the end of the buffer), and word_right *)
(* on a buffer that is not empty changes the cursor only when              *)
(* cursor < length - 1, so that word_right never brings the cursor to the  *)
(* length.                                                                 *)
(***************************************************************************)
WordLeftFrom(c) ==
    LET e == Ed(data, lines, c)
        r == editor_move_word_left(e)
    IN  /\ r = [e EXCEPT !.cursor = r.cursor]
        /\ r.cursor # c => (0 < c /\ c < Len(data))
        /\ r.cursor <= c

WordRightOnText(c) ==
    LET e == Ed(data, lines, c)
        r == editor_move_word_right(e, <<>>)
    IN  /\ r = [e EXCEPT !.cursor = r.cursor]
        /\ r.cursor # c => c < Len(data) - 1
        /\ r.cursor = Len(data) => c = Len(data)

EditingKeys == {<<NL>>, ES_DELETE, ES_BACKSPACE}

\* the step is a chunk read as one of the editing keys
EditingStep ==
    \E seq \in Chunks :
        /\ Len(seq) < MAX_ESC_SEQ_LEN
        /\ cstr(seq) \in EditingKeys
        /\ KeyStep(seq)

BufferKept == data' = data /\ Len(data') = Len(data) /\ lines' = lines

Newlines(items) == Cardinality({i \in 1 .. Len(items) : items[i] = NL})

NoNewlineInside(ls, items) ==
    \A k \in 1 .. Len(ls) : \A i \in ls[k].begin + 1 .. ls[k].end : items[i] # NL

CountsNewlines(ls, items) == Len(ls) = 1 + Newlines(items) /\ NoNewlineInside(ls, items)

NewlineSplits(c) ==
    LET r == editor_insert_char(Ed(data, lines, c), NL)
    IN  /\ CountsNewlines(r.lines, r.data)
        /\ Len(r.lines) = Len(lines) + 1
        /\ LineOf(r.lines, r.cursor) = LineOf(lines, c) + 1
        /\ CursorColumn(r.lines, r.cursor) = 0

OtherByteKeepsCount(c, b) ==
    LET r == editor_insert_char(Ed(data, lines, c), b)
    IN  /\ CountsNewlines(r.lines, r.data)
        /\ Len(r.lines) = Len(lines)
        /\ LineOf(r.lines, r.cursor) = LineOf(lines, c)

C36_LineCount ==
    pc = "read" =>
        /\ CountsNewlines(lines, data)
        /\ \A c \in 0 .. Len(data) :
              /\ NewlineSplits(c)
              /\ \A b \in {0, SP, 113, 126, 255} : OtherByteKeepsCount(c, b)

\* Enter has split the line "qq" of a loaded buffer: the capacity has doubled
\* and the cursor is at the start of the second line
C36_Witness ==
    /\ pc = "read"
    /\ data = <<113, NL, 113>>
    /\ data_capacity = 4
    /\ cursor = 2
    /\ Len(lines) = 2

(***************************************************************************)
(* C37.  Every byte added to the buffer during a session is a displayable  *)
(* ASCII byte (' ' .. '~') or a newline: if the loaded document holds only *)
(* such bytes, the buffer holds only such bytes in every reachable state.  *)
(***************************************************************************)
TextBytes == Displayable \cup {NL}

OnlyText(items) == \A i \in 1 .. Len(items) : items[i] \in TextBytes

\* what read() may return: every single byte, the chunks of the sessions,
\* and pairs of control, text and eight-bit bytes
ProbeChunks ==
    {<<b>> : b \in Bytes} \cup Chunks \cup EditChunks
        \cup {<<a, b>> : a \in {0, 9, NL, SP, 113, 200}, b \in {0, 9, NL, SP, 113, 200}}

\* the event of the chunk seq in the mode ins adds no other byte
AddsOnlyText(ins, seq) ==
    LET ev == dispatch(ins, seq)
    IN  /\ ev.op = "insert" => ev.x \in TextBytes
        /\ OnlyText(apply(CurEd, ev, <<>>).data)

C37_OnlyTextBytesAdded ==
    pc = "read" =>
        /\ OnlyText(data)
        /\ \A ins \in BOOLEAN : \A seq \in ProbeChunks : AddsOnlyText(ins, seq)

\* a space, a q and a newline typed into an empty buffer in Insertion mode
C37_Witness ==
    /\ pc = "read"
    /\ insert
    /\ data_capacity = grown(0)
    /\ data = <<SP, 113, NL>>

(***************************************************************************)
(* C38.  An input chunk of 2 to 31 bytes that is not exactly one of the    *)
(* fixed sequences (ESC+SPACE, Delete) changes nothing in either mode,     *)
(* even when every byte of it is a displayable character or a bound        *)
(* command key: it inserts no text, moves no cursor and toggles no mode.   *)
(***************************************************************************)
\* the chunks of several bytes that are none of the fixed sequences
OtherLongChunks ==
    {seq \in Chunks : 2 <= Len(seq) /\ Len(seq) < MAX_ESC_SEQ_LEN} \ {ES_ALT_SPACE, ES_DELETE}

ChangesNothing ==
    /\ pc' = "read"
    /\ <<data, lines, cursor, insert, file>>' = <<data, lines, cursor, insert, file>>

C38_LongChunksIgnored ==
    [][pc = "read" => \A seq \in OtherLongChunks : KeyStep(seq) => ChangesNothing]_vars

\* the chunks among them that hold no NUL byte change nothing
C38_WithoutNulIgnored ==
    [][pc = "read" =>
          \A seq \in OtherLongChunks : (cstr(seq) = seq /\ KeyStep(seq)) => ChangesNothing]_vars

(***************************************************************************)
(* C39.  When the input read returns 0 bytes without error (end of input), *)
(* the session does not end: buffer, cursor and mode are unchanged and the *)
(* loop renders and reads again, so with input permanently at end-of-file  *)
(* the session never terminates.                                           *)
(***************************************************************************)
\* The iteration after read() returned 0 bytes with errno 0: no chain matches, the editor is left
\* alone, and the frame rendered next is the frame on the screen; the loop
\* neither quits nor saves, and the render asserts nothing.
C39_EndOfInputKeepsSession ==
    pc = "read" =>
        LET ev == dispatch(insert, <<>>)
            e2 == apply(CurEd, ev, <<>>)
            r  == editor_rerender(e2, view_row, view_col, ev.insert, d)
        IN  /\ ~ev.quit /\ ~ev.save /\ ev.insert = insert
            /\ e2 = CurEd
            /\ r = [view_row |-> view_row, view_col |-> view_col, d |-> d, fault |-> "none"]

\* a scrolled frame in Insertion mode, which an empty read renders again
C39_Witness ==
    /\ pc = "read"
    /\ insert
    /\ view_col > 0
    /\ cursor > 0
    /\ dispatch(insert, <<>>).op = "none"

(***************************************************************************)
(* C40.  For every terminal size, buffer, cursor and viewport, a render    *)
(* pass writes only inside the rows*cols grid: each line write starts at   *)
(* i*cols with i < rows-1 and has length <= cols, the filler and the mode  *)
(* label stay inside their row, and the source bytes read lie inside       *)
(* [0, buffer length).                                                     *)
(***************************************************************************)
\* the viewports a pass may start from
ViewRows == 0 .. MaxRows

ViewCols == 0 .. MaxWide + 1

\* the copy c of row i stays in row i of the grid of dd
InsideRow(c, dd, i) ==
    /\ c.dst = i * dd.cols
    /\ 0 <= c.n /\ c.n <= dd.cols
    /\ c.dst + c.n <= dd.rows * dd.cols

\* what the copy c reads lies in its source
InsideSource(c, items, i, dd) ==
    CASE c.from = "data"   -> i < dd.rows - 1 /\ 0 <= c.src /\ c.src + c.n <= Len(items)
      [] c.from = "filler" -> i < dd.rows - 1 /\ c.n = 1
      [] c.from = "label"  -> i = dd.rows - 1 /\ c.n <= Len(insert_label)

\* the pass from the viewport (vr, vc) on the grid of dd
PassInsideGrid(e, vr, vc, ins, dd) ==
    LET r == editor_rerender(e, vr, vc, ins, dd)
    IN  /\ Len(cleared(dd)) = dd.rows * dd.cols
        /\ Len(r.d.chars) = dd.rows * dd.cols
        /\ (Rendered(dd) /\ r.fault = "none") =>
               \A i \in 0 .. dd.rows - 1 :
                  LET c == row_copy(e, r.view_row, r.view_col, ins, dd, i)
                  IN  /\ InsideRow(c, dd, i)
                      /\ InsideSource(c, e.data, i, dd)
                      /\ c.from = "data" =>
                             SubSeq(r.d.chars, c.dst + 1, c.dst + c.n)
                                 = [k \in 1 .. c.n |-> e.data[c.src + k]]

C40_RenderStaysInGrid ==
    pc = "read" =>
        \A vr \in ViewRows, vc \in ViewCols : PassInsideGrid(CurEd, vr, vc, insert, d)

\* a frame with a line wider than the grid cut at the last column, a filler
\* row and the mode label
C40_Witness ==
    /\ pc = "read"
    /\ Rendered(d)
    /\ d.rows = 3
    /\ insert
    /\ Len(lines) = 1
    /\ Len(data) > d.cols
    /\ view_col = 0
    /\ row_copy(CurEd, view_row, view_col, insert, d, 0).n = d.cols
    /\ row_copy(CurEd, view_row, view_col, insert, d, 1).from = "filler"
    /\ SubSeq(d.chars, 2 * d.cols + 1, 3 * d.cols) = insert_label

====
